---- MODULE Spec2Model ----
(***************************************************************************)
(* A model of the qlite queue engine: the SQLite tables of database.rs     *)
(* (queues, queue_config, messages, dead_letter_messages), the operations  *)
(* of Database and QueueService on them, the long-polling receive of       *)
(* QueueService::receive_messages_enhanced with its broadcast notifier,    *)
(* and the retention sweep.  Every closure handed to connection.call runs  *)
(* alone on the connection's thread, so each database call is one step.    *)
(*                                                                         *)
(* Time is the wall clock in seconds.  Timestamps are stored by the code   *)
(* as RFC 3339 strings in UTC; comparing two of them as strings orders     *)
(* them as instants, so they are modelled as the instants.  A comparison   *)
(* with SQLite's datetime('now') is a comparison with a string of another  *)
(* shape and is modelled by Rfc3339LtSqliteNow.                            *)
(*                                                                         *)
(* The column processed_at is written by the receives and read by no       *)
(* operation; it is left out.                                              *)
(***************************************************************************)
EXTENDS Integers, Sequences, FiniteSets, TLC

----------------------------------------------------------------------------
(* Option<T>: None is the empty sequence, Some(x) the one-element sequence. *)

None == <<>>

Some(x) == <<x>>

IsSome(o) == o # <<>>

Unwrap(o) == o[1]

----------------------------------------------------------------------------
(* Bounds of the model. *)

(* The message ids a behaviour hands out. *)
MaxIds == 2

(* The steps the clock takes. *)
MaxTicks == 2

(* The largest max_messages given to the batch and long-polling receives. *)
MaxPollMax == 2

(* The receive_count up to which messages are received. *)
MaxReceives == 2

(* The message ids a behaviour of the dead-letter specification hands out. *)
MaxDlqIds == 3

(* The number of send calls that can be in progress at the same time. *)
MaxSenders == 2

----------------------------------------------------------------------------
(* Program constants. *)

LeaseSeconds == 30

DedupWindowSeconds == 300

DefaultVisibilityTimeout == 30

DefaultRetentionPeriod == 1209600

DefaultMaxReceiveCount == 10

DefaultRedriveLimit == 10

BatchReceiveLimit == 10

LongPollCapSeconds == 20

SecondsPerDay == 86400

FifoSuffixLen == 5

----------------------------------------------------------------------------
(* Strings the code takes apart are sequences of characters. *)

FifoSuffix == <<".", "f", "i", "f", "o">>

EndsWith(s, suffix) ==
    /\ Len(s) >= Len(suffix)
    /\ SubSeq(s, Len(s) - Len(suffix) + 1, Len(s)) = suffix

(* dlq_name.split('/').next_back(): the part after the last '/'. *)
RECURSIVE LastSegment(_)
LastSegment(s) ==
    IF \E i \in 1..Len(s) : s[i] = "/"
    THEN LastSegment(SubSeq(s, (CHOOSE i \in 1..Len(s) : s[i] = "/") + 1, Len(s)))
    ELSE s

QStd == <<"q">>

QFifo == <<"o", ".", "f", "i", "f", "o">>

QBareFifo == FifoSuffix

QOther == <<"p">>

DlqArn == <<"a", "/", "d">>

DlqName == <<"d">>

----------------------------------------------------------------------------
(* Timestamps. *)

DayOf(t) == t \div SecondsPerDay

(* rfc3339(t) < datetime('now') as SQLite compares them: as strings.  The   *)
(* two agree on the ten characters of the date; the eleventh is 'T' in the  *)
(* stored value and ' ' in datetime('now'), and 'T' sorts after ' '.        *)
Rfc3339LtSqliteNow(t, n) == DayOf(t) < DayOf(n)

----------------------------------------------------------------------------
VARIABLES
    now,                   \* the wall clock, in seconds
    ticks,                 \* how many times the clock has advanced
    queues,                \* table queues: name -> created_at
    queue_config,          \* table queue_config: name -> row
    messages,              \* table messages: id -> row
    dead_letter_messages,  \* table dead_letter_messages: id -> row
    nextId,                \* the next fresh message id (a UUID in the code)
    message_notifiers,     \* QueueService.message_notifiers: queues with a channel
    poll,                  \* the long-polling receive in progress, if any
    senders,               \* the send calls in progress: sender -> its position
    lastOp,                \* the operation that ran last and what it returned
    hist                   \* history of deliveries and deletes

vars == <<now, ticks, queues, queue_config, messages, dead_letter_messages,
          nextId, message_notifiers, poll, senders, lastOp, hist>>

db == <<queues, queue_config, messages, dead_letter_messages>>

----------------------------------------------------------------------------
(* Rows. *)

(* INSERT INTO messages: status defaults to 'active', receive_count to 0.  *)
MessageRow(q, body, created, attrs, dedup, delay, group, seq) ==
    [queue_name |-> q, body |-> body, created_at |-> created,
     visibility_timeout |-> None, receive_count |-> 0, attributes |-> attrs,
     deduplication_id |-> dedup, status |-> "active", deleted_at |-> None,
     delay_until |-> delay, message_group_id |-> group, sequence_number |-> seq]

(* QueueConfig::default() *)
DefaultQueueConfig ==
    [is_fifo |-> FALSE, content_based_deduplication |-> FALSE,
     visibility_timeout_seconds |-> DefaultVisibilityTimeout,
     message_retention_period_seconds |-> DefaultRetentionPeriod,
     max_receive_count |-> Some(DefaultMaxReceiveCount),
     dead_letter_target_arn |-> None,
     delay_seconds |-> 0, receive_message_wait_time_seconds |-> 0]

(* A table with the row of key k set (INSERT, INSERT OR REPLACE). *)
Put(table, k, row) ==
    [x \in DOMAIN table \cup {k} |-> IF x = k THEN row ELSE table[x]]

(* A table without the rows of the keys ks (DELETE). *)
Drop(table, ks) == [x \in DOMAIN table \ ks |-> table[x]]

Min(a, b) == IF a <= b THEN a ELSE b

(* What an operation reports: its name, the queue it was given, the message *)
(* ids it delivered or was given, a count and a success flag.               *)
Op(op, q, ids, n, ok) == [op |-> op, q |-> q, ids |-> ids, n |-> n, ok |-> ok]

IdlePoll ==
    [pc |-> "idle", q |-> <<>>, max |-> 0, wait |-> 0, got |-> <<>>, i |-> 0,
     deadline |-> 0, pending |-> 0]

Range(s) == {s[i] : i \in 1..Len(s)}

(* The tasks that may be inside a send call at the same time. *)
Senders == 1..MaxSenders

IdleSend ==
    [pc |-> "idle", kind |-> "", q |-> <<>>, body |-> "", id |-> 0,
     created_at |-> 0, is_fifo |-> FALSE, deduplication_id |-> None,
     message_group_id |-> None]

----------------------------------------------------------------------------
(* History, kept for stating the properties; no operation reads it.        *)

ReceiveOps == {"ReceiveMessage", "ReceiveMessagesBatch", "PollReceive"}

(* The ids the step into the primed state handed to a receiver. *)
DeliveredNow == IF lastOp'.op \in ReceiveOps THEN Range(lastOp'.ids) ELSE {}

(* The ids whose expired lease a cleanup sweep reclaimed in this step. *)
ReclaimedNow ==
    {id \in DOMAIN messages \cap DOMAIN messages' :
        /\ lastOp'.op = "CleanupKeepForever"
        /\ messages[id].status = "processing"
        /\ IsSome(messages[id].visibility_timeout)
        /\ Unwrap(messages[id].visibility_timeout) < now
        /\ messages'[id].status = "active"}

(* The ids RestoreMessage was called on in this step. *)
RestoredNow == IF lastOp'.op = "RestoreMessage" THEN Range(lastOp'.ids) ELSE {}

(* The ids DeleteMessage returned true for in this step. *)
DeletedNow ==
    IF lastOp'.op = "DeleteMessage" /\ lastOp'.ok THEN Range(lastOp'.ids) ELSE {}

(* The ids DeleteMessage or RestoreMessage was called on in this step. *)
TouchedNow ==
    IF lastOp'.op \in {"DeleteMessage", "RestoreMessage"} THEN Range(lastOp'.ids)
    ELSE {}

(* The ids move_message_to_dlq returned true for in this step. *)
PromotedNow ==
    IF lastOp'.op = "MoveMessageToDlq" /\ lastOp'.n = 1 THEN Range(lastOp'.ids)
    ELSE {}

(* The ids of the dead-letter records a redrive or a purge removed in this  *)
(* step.                                                                    *)
ReleasedNow ==
    IF lastOp'.op \in {"RedriveDlqMessages", "PurgeDlq"}
    THEN DOMAIN dead_letter_messages \ DOMAIN dead_letter_messages'
    ELSE {}

(* The sequence numbers the send of this step assigned, with their queue. *)
AssignedNow ==
    IF lastOp'.op = "SendMessageEnhanced"
    THEN {<<messages'[id].queue_name, Unwrap(messages'[id].sequence_number)>> :
             id \in {x \in DOMAIN messages' \ DOMAIN messages :
                        IsSome(messages'[x].sequence_number)}}
    ELSE {}

(* The ids of the messages a redrive inserted in this step. *)
RedrivenNow ==
    IF lastOp'.op = "RedriveDlqMessages" THEN Range(lastOp'.ids) ELSE {}

(* leased: delivered, and since then neither reclaimed by a sweep nor given *)
(*   to RestoreMessage.                                                     *)
(* deleted: DeleteMessage returned true, and no RestoreMessage since.       *)
(* rcAt: the receive_count each message was last delivered with.            *)
(* awaiting: reclaimed by a sweep after a delivery, and since then not      *)
(*   delivered, deleted, restored or set aside for the dead-letter queue.   *)
(* promoted: move_message_to_dlq returned true.                             *)
(* released: its dead-letter record was removed by a redrive or a purge.    *)
(* assigned: the sequence numbers the sends have assigned, with their queue. *)
(* redriven: the message was inserted by a redrive.                         *)
HistNext ==
    hist' =
      [leased |-> ((hist.leased \ (ReclaimedNow \cup RestoredNow)) \cup DeliveredNow)
                     \cap DOMAIN messages',
       deleted |-> ((hist.deleted \ RestoredNow) \cup DeletedNow) \cap DOMAIN messages',
       rcAt |-> [id \in DOMAIN hist.rcAt |->
                   IF id \in DeliveredNow /\ id \in DOMAIN messages'
                   THEN messages'[id].receive_count
                   ELSE hist.rcAt[id]],
       awaiting |-> {id \in ((hist.awaiting \cup (ReclaimedNow \cap hist.leased))
                               \ (DeliveredNow \cup TouchedNow)) \cap DOMAIN messages' :
                        messages'[id].status = "active"},
       promoted |-> hist.promoted \cup PromotedNow,
       released |-> hist.released \cup ReleasedNow,
       assigned |-> hist.assigned \cup AssignedNow,
       redriven |-> hist.redriven \cup RedrivenNow]

----------------------------------------------------------------------------
Init ==
    /\ now = 0
    /\ ticks = 0
    /\ queues = <<>>
    /\ queue_config = <<>>
    /\ messages = <<>>
    /\ dead_letter_messages = <<>>
    /\ nextId = 1
    /\ message_notifiers = {}
    /\ poll = IdlePoll
    /\ senders = [s \in Senders |-> IdleSend]
    /\ lastOp = Op("new", <<>>, <<>>, 0, TRUE)
    /\ hist = [leased |-> {}, deleted |-> {}, rcAt |-> [id \in 1..(MaxIds + MaxDlqIds) |-> 0],
               awaiting |-> {}, promoted |-> {}, released |-> {}, assigned |-> {},
               redriven |-> {}]

----------------------------------------------------------------------------
(* Queues. *)

(* The creation without the check of the length of a FIFO name. *)
CreateQueueAnyLength(name) ==
    LET is_fifo == EndsWith(name, FifoSuffix)
        config == [DefaultQueueConfig EXCEPT !.is_fifo = TRUE,
                                             !.content_based_deduplication = TRUE]
    IN /\ queues' = IF name \in DOMAIN queues THEN queues
                     ELSE Put(queues, name, now)
       /\ queue_config' = IF is_fifo THEN Put(queue_config, name, config)
                          ELSE queue_config
       /\ lastOp' = Op("CreateQueue", name, <<>>, 0, TRUE)
       /\ UNCHANGED <<now, ticks, messages, dead_letter_messages, nextId,
                      message_notifiers, poll, senders>>
       /\ HistNext

(* QueueService::create_queue: the name check, Database::create_queue       *)
(* (INSERT OR IGNORE) and, for a FIFO name, create_queue_with_config        *)
(* (INSERT OR REPLACE of the FIFO configuration).                           *)
CreateQueue(name) ==
    LET is_fifo == EndsWith(name, FifoSuffix)
        config == [DefaultQueueConfig EXCEPT !.is_fifo = TRUE,
                                             !.content_based_deduplication = TRUE]
    IN /\ IF is_fifo /\ Len(name) <= FifoSuffixLen
          THEN /\ UNCHANGED <<queues, queue_config>>
               /\ lastOp' = Op("CreateQueue", name, <<>>, 0, FALSE)
          ELSE /\ queues' = IF name \in DOMAIN queues THEN queues
                            ELSE Put(queues, name, now)
               /\ queue_config' = IF is_fifo THEN Put(queue_config, name, config)
                                  ELSE queue_config
               /\ lastOp' = Op("CreateQueue", name, <<>>, 0, TRUE)
       /\ UNCHANGED <<now, ticks, messages, dead_letter_messages, nextId,
                      message_notifiers, poll, senders>>
       /\ HistNext

(* Database::delete_queue: the messages of the queue, then the queue. *)
DeleteQueue(name) ==
    /\ messages' = Drop(messages, {id \in DOMAIN messages :
                                      messages[id].queue_name = name})
    /\ queues' = Drop(queues, {name})
    /\ lastOp' = Op("DeleteQueue", name, <<>>, 0, name \in DOMAIN queues)
    /\ UNCHANGED <<now, ticks, queue_config, dead_letter_messages, nextId,
                   message_notifiers, poll, senders>>
    /\ HistNext

(* Database::list_queues: SELECT name, created_at FROM queues (the names). *)
ListQueues == DOMAIN queues

(* A value of an attribute map given to SetQueueAttributes, as parsed: each *)
(* attribute is absent (or unparsable) or has a value.                      *)
NoAttributes ==
    [VisibilityTimeout |-> None, MessageRetentionPeriod |-> None,
     DelaySeconds |-> None, ReceiveMessageWaitTimeSeconds |-> None,
     RedrivePolicy |-> None]

RedrivePolicy(max, arn) == [maxReceiveCount |-> max, deadLetterTargetArn |-> arn]

OrElse(o, d) == IF IsSome(o) THEN Unwrap(o) ELSE d

(* Database::set_queue_attributes: INSERT OR REPLACE of a row that names    *)
(* seven columns; is_fifo and content_based_deduplication take the column   *)
(* defaults.                                                                *)
SetQueueAttributes(name, attributes) ==
    LET policy == attributes.RedrivePolicy
        row == [is_fifo |-> FALSE, content_based_deduplication |-> FALSE,
                visibility_timeout_seconds |->
                    OrElse(attributes.VisibilityTimeout, DefaultVisibilityTimeout),
                message_retention_period_seconds |->
                    OrElse(attributes.MessageRetentionPeriod, DefaultRetentionPeriod),
                max_receive_count |->
                    IF IsSome(policy) THEN Unwrap(policy).maxReceiveCount ELSE None,
                dead_letter_target_arn |->
                    IF IsSome(policy) THEN Unwrap(policy).deadLetterTargetArn ELSE None,
                delay_seconds |-> OrElse(attributes.DelaySeconds, 0),
                receive_message_wait_time_seconds |->
                    OrElse(attributes.ReceiveMessageWaitTimeSeconds, 0)]
    IN /\ queue_config' = Put(queue_config, name, row)
       /\ lastOp' = Op("SetQueueAttributes", name, <<>>, 0, TRUE)
       /\ UNCHANGED <<now, ticks, queues, messages, dead_letter_messages, nextId,
                      message_notifiers, poll, senders>>
       /\ HistNext

----------------------------------------------------------------------------
(* The notifier. *)

(* A send that notifies nobody. *)
NotifiedNobody(q) == poll

(* QueueService::notify_message_arrival: a unit value for every subscribed  *)
(* receiver of the queue's channel, if the queue has a channel.             *)
Notified(q) ==
    IF /\ q \in message_notifiers
       /\ poll.pc \in {"waiting", "woken"}
       /\ poll.q = q
    THEN [poll EXCEPT !.pending = @ + 1]
    ELSE poll

----------------------------------------------------------------------------
(* Sending. *)

(* A digest that does not depend on the body. *)
Md5HexOfNothing(body) == "md5()"

(* format!("{:x}", md5::compute(body)) *)
Md5Hex(body) == "md5(" \o body \o ")"

(* The duplicate check with a window of no length. *)
DuplicateExistsNoWindow(q, dedup_id) ==
    \E id \in DOMAIN messages :
        /\ messages[id].queue_name = q
        /\ messages[id].deduplication_id = Some(dedup_id)
        /\ messages[id].created_at > now

(* SELECT COUNT( * ) FROM messages WHERE queue_name = ?1 AND               *)
(* deduplication_id = ?2 AND created_at > ?3, with ?3 five minutes ago.     *)
DuplicateExists(q, dedup_id) ==
    \E id \in DOMAIN messages :
        /\ messages[id].queue_name = q
        /\ messages[id].deduplication_id = Some(dedup_id)
        /\ messages[id].created_at > now - DedupWindowSeconds

(* QueueService::send_message over Database::send_message. *)
SendMessage(q, body, attributes, deduplication_id) ==
    /\ nextId' = nextId + 1
    /\ IF IsSome(deduplication_id) /\ DuplicateExists(q, Unwrap(deduplication_id))
       THEN messages' = messages
       ELSE messages' = Put(messages, nextId,
                MessageRow(q, body, now, attributes, deduplication_id,
                           None, None, None))
    /\ poll' = Notified(q)
    /\ lastOp' = Op("SendMessage", q, <<nextId>>, 0, TRUE)
    /\ UNCHANGED <<now, ticks, queues, queue_config, dead_letter_messages,
                   message_notifiers, senders>>
    /\ HistNext

(* SELECT COALESCE(MAX(sequence_number), 0) + 1 FROM messages WHERE         *)
(* queue_name = ?1                                                          *)
NextSequenceNumber(q) ==
    LET used == {Unwrap(messages[id].sequence_number) :
                    id \in {x \in DOMAIN messages :
                               /\ messages[x].queue_name = q
                               /\ IsSome(messages[x].sequence_number)}}
    IN IF used = {} THEN 1
       ELSE (CHOOSE n \in used : \A o \in used : o <= n) + 1

(* QueueService::send_message_enhanced_with_group over                      *)
(* Database::send_message_with_delay_and_group.                             *)
SendMessageEnhanced(q, body, attributes, deduplication_id, delay_seconds, group_id) ==
    LET is_fifo == q \in DOMAIN queue_config /\ queue_config[q].is_fifo
        message_group_id ==
            IF is_fifo /\ ~IsSome(group_id) THEN Some("default") ELSE group_id
        effective_dedup_id ==
            IF is_fifo
            THEN IF IsSome(deduplication_id) THEN deduplication_id
                 ELSE IF queue_config[q].content_based_deduplication
                      THEN Some(Md5Hex(body))
                      ELSE None
            ELSE deduplication_id
        delay_until == IF delay_seconds > 0 THEN Some(now + delay_seconds) ELSE None
        sequence_number == IF is_fifo THEN Some(NextSequenceNumber(q)) ELSE None
    IN /\ nextId' = nextId + 1
       /\ IF IsSome(effective_dedup_id) /\ DuplicateExists(q, Unwrap(effective_dedup_id))
          THEN messages' = messages
          ELSE messages' = Put(messages, nextId,
                   MessageRow(q, body, now, attributes, effective_dedup_id,
                              delay_until, message_group_id, sequence_number))
       /\ poll' = Notified(q)
       /\ lastOp' = Op("SendMessageEnhanced", q, <<nextId>>, 0, TRUE)
       /\ UNCHANGED <<now, ticks, queues, queue_config, dead_letter_messages,
                      message_notifiers, senders>>
       /\ HistNext

(* Database::send_messages_batch inside its transaction: each entry is     *)
(* checked against the rows stored so far, those of earlier entries         *)
(* included, and inserted with the created_at of the call and the columns   *)
(* id, queue_name, body, created_at, attributes, deduplication_id and       *)
(* delay_until.  Every entry has an id of its own, stored or not.           *)
RECURSIVE BatchInsert(_, _, _, _)
BatchInsert(msgs, q, entries, id) ==
    IF entries = <<>> THEN msgs
    ELSE LET entry == Head(entries)
             duplicate ==
                 /\ IsSome(entry.deduplication_id)
                 /\ \E i \in DOMAIN msgs :
                       /\ msgs[i].queue_name = q
                       /\ msgs[i].deduplication_id = entry.deduplication_id
                       /\ msgs[i].created_at > now - DedupWindowSeconds
             delay_until ==
                 IF entry.delay_seconds > 0 THEN Some(now + entry.delay_seconds)
                 ELSE None
             stored ==
                 IF duplicate THEN msgs
                 ELSE Put(msgs, id,
                          MessageRow(q, entry.body, now, entry.attributes,
                                     entry.deduplication_id, delay_until, None, None))
         IN BatchInsert(stored, q, Tail(entries), id + 1)

(* The SendMessageBatch handler over QueueService::send_messages_batch: the *)
(* entries of one request go to the queue of the request.                   *)
SendMessagesBatch(q, entries) ==
    /\ entries # <<>>
    /\ messages' = BatchInsert(messages, q, entries, nextId)
    /\ nextId' = nextId + Len(entries)
    /\ poll' = Notified(q)
    /\ lastOp' = Op("SendMessagesBatch", q,
                    [i \in 1..Len(entries) |-> nextId + i - 1], Len(entries), TRUE)
    /\ UNCHANGED <<now, ticks, queues, queue_config, dead_letter_messages,
                   message_notifiers, senders>>
    /\ HistNext

(* The transaction of send_messages_batch giving up at the first entry     *)
(* that fails: that entry and all after it report the error and store       *)
(* nothing.                                                                 *)
RECURSIVE SendEntriesStoppingAtError(_, _)
SendEntriesStoppingAtError(msgs, entries) ==
    IF entries = <<>> THEN [msgs |-> msgs, results |-> <<>>]
    ELSE LET entry == Head(entries)
         IN IF entry.message_id \in DOMAIN msgs
            THEN [msgs |-> msgs, results |-> [i \in 1..Len(entries) |-> "Err"]]
            ELSE LET rest == SendEntriesStoppingAtError(
                                Put(msgs, entry.message_id,
                                    MessageRow(entry.queue_name, entry.body, now,
                                               entry.attributes, entry.deduplication_id,
                                               None, None, None)),
                                Tail(entries))
                 IN [msgs |-> rest.msgs, results |-> <<"Ok">> \o rest.results]

(* Database::send_messages_batch with the ids its caller supplies: the      *)
(* table it leaves and the result of every entry.  A duplicate inside the   *)
(* deduplication window is Ok without a row; the INSERT of an id that is    *)
(* already stored fails on the primary key, which undoes that statement     *)
(* only, and the loop goes on; the transaction commits at the end.          *)
RECURSIVE SendEntries(_, _)
SendEntries(msgs, entries) ==
    IF entries = <<>> THEN [msgs |-> msgs, results |-> <<>>]
    ELSE LET entry == Head(entries)
             duplicate ==
                 /\ IsSome(entry.deduplication_id)
                 /\ \E i \in DOMAIN msgs :
                       /\ msgs[i].queue_name = entry.queue_name
                       /\ msgs[i].deduplication_id = entry.deduplication_id
                       /\ msgs[i].created_at > now - DedupWindowSeconds
             delay_until ==
                 IF entry.delay_seconds > 0 THEN Some(now + entry.delay_seconds)
                 ELSE None
             failed == ~duplicate /\ entry.message_id \in DOMAIN msgs
             stored ==
                 IF duplicate \/ failed THEN msgs
                 ELSE Put(msgs, entry.message_id,
                          MessageRow(entry.queue_name, entry.body, now,
                                     entry.attributes, entry.deduplication_id,
                                     delay_until, None, None))
             rest == SendEntries(stored, Tail(entries))
         IN [msgs |-> rest.msgs,
             results |-> <<IF failed THEN "Err" ELSE "Ok">> \o rest.results]

(* QueueService::send_messages_batch called with entries that carry their   *)
(* message ids: the results in the order of the entries, and a notification *)
(* for every queue named.                                                   *)
QueueServiceSendMessagesBatch(entries) ==
    LET sent == SendEntries(messages, entries)
        named == {entries[i].queue_name : i \in 1..Len(entries)}
    IN /\ messages' = sent.msgs
       /\ poll' = IF poll.q \in named THEN Notified(poll.q) ELSE poll
       /\ lastOp' = [op |-> "QueueServiceSendMessagesBatch", q |-> <<>>,
                      ids |-> [i \in 1..Len(entries) |-> entries[i].message_id],
                      n |-> Len(entries), ok |-> TRUE,
                      entries |-> entries, results |-> sent.results]
       /\ UNCHANGED <<now, ticks, queues, queue_config, dead_letter_messages,
                      nextId, message_notifiers, senders>>
       /\ HistNext

----------------------------------------------------------------------------
(* The send calls step by step: every connection.call closure and every    *)
(* lock of the notifier map is a step of its own, and steps of several      *)
(* callers interleave.                                                      *)

SendOpName(kind) == IF kind = "plain" THEN "SendMessage" ELSE "SendMessageEnhanced"

(* Message::new (a fresh id); for send_message also created_at, and the     *)
(* way to the duplicate check or to the INSERT.                             *)
SendBegin(s, kind, q, body, deduplication_id, group_id) ==
    /\ senders[s].pc = "idle"
    /\ nextId' = nextId + 1
    /\ senders' =
          [senders EXCEPT ![s] =
              [pc |-> IF kind = "plain"
                      THEN IF IsSome(deduplication_id) THEN "check" ELSE "insert"
                      ELSE "config",
               kind |-> kind, q |-> q, body |-> body, id |-> nextId,
               created_at |-> now, is_fifo |-> FALSE,
               deduplication_id |-> deduplication_id,
               message_group_id |-> IF kind = "plain" THEN None ELSE group_id]]
    /\ lastOp' = Op("SendStep", q, <<>>, 0, TRUE)
    /\ UNCHANGED <<now, ticks, db, message_notifiers, poll>>
    /\ HistNext

(* send_message_with_delay_and_group up to the duplicate check:             *)
(* get_queue_config, created_at, the default group, the effective           *)
(* deduplication id.                                                        *)
SendConfig(s) ==
    LET c == senders[s]
        is_fifo == c.q \in DOMAIN queue_config /\ queue_config[c.q].is_fifo
        effective_dedup_id ==
            IF is_fifo
            THEN IF IsSome(c.deduplication_id) THEN c.deduplication_id
                 ELSE IF queue_config[c.q].content_based_deduplication
                      THEN Some(Md5Hex(c.body))
                      ELSE None
            ELSE c.deduplication_id
    IN /\ c.pc = "config"
       /\ senders' =
             [senders EXCEPT ![s] =
                 [c EXCEPT !.pc = IF IsSome(effective_dedup_id) THEN "check"
                                  ELSE "insert",
                           !.created_at = now,
                           !.is_fifo = is_fifo,
                           !.deduplication_id = effective_dedup_id,
                           !.message_group_id =
                               IF is_fifo /\ ~IsSome(c.message_group_id)
                               THEN Some("default") ELSE c.message_group_id]]
       /\ lastOp' = Op("SendStep", c.q, <<>>, 0, TRUE)
       /\ UNCHANGED <<now, ticks, db, nextId, message_notifiers, poll>>
       /\ HistNext

(* The duplicate check, a closure of its own: a duplicate is ignored and    *)
(* the call goes on to the notification.                                    *)
SendCheck(s) ==
    LET c == senders[s]
        duplicate_exists == DuplicateExists(c.q, Unwrap(c.deduplication_id))
    IN /\ c.pc = "check"
       /\ senders' = [senders EXCEPT ![s].pc = IF duplicate_exists THEN "notify"
                                               ELSE "insert"]
       /\ lastOp' = Op("SendStep", c.q, <<>>, 0, TRUE)
       /\ UNCHANGED <<now, ticks, db, nextId, message_notifiers, poll>>
       /\ HistNext

(* The INSERT with the sequence number taken over the rows that were there  *)
(* when the call began.                                                     *)
SendInsertStaleSequence(s) ==
    LET c == senders[s]
        used == {Unwrap(messages[id].sequence_number) :
                    id \in {x \in DOMAIN messages :
                               /\ x < c.id
                               /\ messages[x].queue_name = c.q
                               /\ IsSome(messages[x].sequence_number)}}
        stale == IF used = {} THEN 1
                 ELSE (CHOOSE n \in used : \A o \in used : o <= n) + 1
    IN /\ c.pc = "insert"
       /\ messages' = Put(messages, c.id,
             MessageRow(c.q, c.body, c.created_at, None, c.deduplication_id, None,
                        c.message_group_id,
                        IF c.is_fifo THEN Some(stale) ELSE None))
       /\ senders' = [senders EXCEPT ![s].pc = "notify"]
       /\ lastOp' = Op(SendOpName(c.kind), c.q, <<c.id>>, 0, TRUE)
       /\ UNCHANGED <<now, ticks, queues, queue_config, dead_letter_messages,
                      nextId, message_notifiers, poll>>
       /\ HistNext

(* The closure that reads MAX(sequence_number) + 1 for a FIFO queue and     *)
(* runs the INSERT.                                                         *)
SendInsert(s) ==
    LET c == senders[s]
    IN /\ c.pc = "insert"
       /\ messages' = Put(messages, c.id,
             MessageRow(c.q, c.body, c.created_at, None, c.deduplication_id, None,
                        c.message_group_id,
                        IF c.is_fifo THEN Some(NextSequenceNumber(c.q)) ELSE None))
       /\ senders' = [senders EXCEPT ![s].pc = "notify"]
       /\ lastOp' = Op(SendOpName(c.kind), c.q, <<c.id>>, 0, TRUE)
       /\ UNCHANGED <<now, ticks, queues, queue_config, dead_letter_messages,
                      nextId, message_notifiers, poll>>
       /\ HistNext

(* notify_message_arrival, and the call returns the message id. *)
SendNotify(s) ==
    LET c == senders[s]
    IN /\ c.pc = "notify"
       /\ poll' = Notified(c.q)
       /\ senders' = [senders EXCEPT ![s] = IdleSend]
       /\ lastOp' = Op("SendReturn", c.q, <<c.id>>, 0, TRUE)
       /\ UNCHANGED <<now, ticks, db, nextId, message_notifiers>>
       /\ HistNext

----------------------------------------------------------------------------
(* Receiving. *)

(* The selection without the status filter. *)
EligibleAnyStatus(q) ==
    {id \in DOMAIN messages :
        /\ messages[id].queue_name = q
        /\ messages[id].status \in {"active", "processing"}}

(* The selection without the condition on delay_until. *)
EligibleIgnoringDelay(q) ==
    {id \in DOMAIN messages :
        /\ messages[id].queue_name = q
        /\ messages[id].status = "active"
        /\ \/ ~IsSome(messages[id].visibility_timeout)
           \/ Rfc3339LtSqliteNow(Unwrap(messages[id].visibility_timeout), now)}

(* WHERE queue_name = ?1 AND status = 'active'                              *)
(*   AND (visibility_timeout IS NULL OR visibility_timeout < datetime('now')) *)
(*   AND (delay_until IS NULL OR delay_until < datetime('now'))             *)
Eligible(q) ==
    {id \in DOMAIN messages :
        /\ messages[id].queue_name = q
        /\ messages[id].status = "active"
        /\ \/ ~IsSome(messages[id].visibility_timeout)
           \/ Rfc3339LtSqliteNow(Unwrap(messages[id].visibility_timeout), now)
        /\ \/ ~IsSome(messages[id].delay_until)
           \/ Rfc3339LtSqliteNow(Unwrap(messages[id].delay_until), now)}

(* ORDER BY sequence_number ASC: SQLite sorts NULL before every number. *)
SequenceLeq(a, b) == ~IsSome(a) \/ (IsSome(b) /\ Unwrap(a) <= Unwrap(b))

(* SELECT is_fifo FROM queue_config WHERE name = ?1, false without a row. *)
IsFifo(q) == q \in DOMAIN queue_config /\ queue_config[q].is_fifo

(* The rows ORDER BY ... LIMIT 1 may return: SQLite leaves the order of     *)
(* rows with equal keys open.                                               *)
Heads(q) ==
    IF IsFifo(q)
    THEN {id \in Eligible(q) : \A o \in Eligible(q) :
            SequenceLeq(messages[id].sequence_number, messages[o].sequence_number)}
    ELSE {id \in Eligible(q) : \A o \in Eligible(q) :
            messages[id].created_at <= messages[o].created_at}

(* if let Some((Some(max_receive_count), Some(_dlq_arn))) = queue_config    *)
(*    && new_receive_count > max_receive_count                              *)
ExceedsMaxReceiveCount(q, new_receive_count) ==
    /\ q \in DOMAIN queue_config
    /\ IsSome(queue_config[q].max_receive_count)
    /\ IsSome(queue_config[q].dead_letter_target_arn)
    /\ new_receive_count > Unwrap(queue_config[q].max_receive_count)

(* The receive leasing the row without counting the delivery. *)
ReceiveRowKeepingCount(q, id) ==
    [msgs |-> [messages EXCEPT
                  ![id].visibility_timeout = Some(now + LeaseSeconds),
                  ![id].status = "processing"],
     ret |-> <<id>>]

(* Database::receive_message once the head row id is selected: the table it *)
(* leaves and the id it returns, if any.                                    *)
ReceiveRow(q, id) ==
    LET new_receive_count == messages[id].receive_count + 1
    IN IF ExceedsMaxReceiveCount(q, new_receive_count)
       THEN [msgs |-> [messages EXCEPT ![id].status = "dlq_pending",
                                       ![id].receive_count = new_receive_count],
             ret |-> <<>>]
       ELSE [msgs |-> [messages EXCEPT
                          ![id].visibility_timeout = Some(now + LeaseSeconds),
                          ![id].receive_count = new_receive_count,
                          ![id].status = "processing"],
             ret |-> <<id>>]

(* Database::receive_message: every outcome the call may have. *)
ReceiveOutcomes(q) ==
    IF Heads(q) = {} THEN {[msgs |-> messages, ret |-> <<>>]}
    ELSE {ReceiveRow(q, id) : id \in Heads(q)}

(* The receive counters stay within the model. *)
ReceiveBounded(q) ==
    \A id \in Eligible(q) : messages[id].receive_count < MaxReceives

(* QueueService::receive_message *)
ReceiveMessage(q) ==
    /\ ReceiveBounded(q)
    /\ \E o \in ReceiveOutcomes(q) :
          /\ messages' = o.msgs
          /\ lastOp' = Op("ReceiveMessage", q, o.ret, Len(o.ret), TRUE)
    /\ UNCHANGED <<now, ticks, queues, queue_config, dead_letter_messages, nextId,
                   message_notifiers, poll, senders>>
    /\ HistNext

(* The sequences ORDER BY created_at ASC LIMIT n may return. *)
FirstByCreatedAt(ids, n) ==
    LET k == Min(n, Cardinality(ids))
    IN {s \in [1..k -> ids] :
          /\ \A i, j \in 1..k : i < j =>
                /\ s[i] # s[j]
                /\ messages[s[i]].created_at <= messages[s[j]].created_at
          /\ \A id \in ids \ {s[i] : i \in 1..k} : \A i \in 1..k :
                messages[s[i]].created_at <= messages[id].created_at}

(* The batch receive returning the rows it selected without marking them   *)
(* processing.                                                              *)
ReceiveMessagesBatchNotMarking(q, max_messages) ==
    /\ ReceiveBounded(q)
    /\ \E s \in FirstByCreatedAt(Eligible(q), Min(max_messages, BatchReceiveLimit)) :
          /\ messages' =
                [id \in DOMAIN messages |->
                    IF id \in Range(s)
                    THEN [messages[id] EXCEPT
                            !.visibility_timeout = Some(now + LeaseSeconds),
                            !.receive_count = @ + 1]
                    ELSE messages[id]]
          /\ lastOp' = Op("ReceiveMessagesBatch", q, s, Len(s), TRUE)
    /\ UNCHANGED <<now, ticks, queues, queue_config, dead_letter_messages, nextId,
                   message_notifiers, poll, senders>>
    /\ HistNext

(* Database::receive_messages_batch *)
ReceiveMessagesBatch(q, max_messages) ==
    /\ ReceiveBounded(q)
    /\ \E s \in FirstByCreatedAt(Eligible(q), Min(max_messages, BatchReceiveLimit)) :
          /\ messages' =
                [id \in DOMAIN messages |->
                    IF id \in Range(s)
                    THEN [messages[id] EXCEPT
                            !.visibility_timeout = Some(now + LeaseSeconds),
                            !.receive_count = @ + 1,
                            !.status = "processing"]
                    ELSE messages[id]]
          /\ lastOp' = Op("ReceiveMessagesBatch", q, s, Len(s), TRUE)
    /\ UNCHANGED <<now, ticks, queues, queue_config, dead_letter_messages, nextId,
                   message_notifiers, poll, senders>>
    /\ HistNext

----------------------------------------------------------------------------
(* Queue attributes. *)

(* Database::get_queue_attributes: nothing without a row in queues;         *)
(* otherwise COUNT( * ) ... status = 'active' as the total, COUNT( * ) ...  *)
(* status = 'active' AND (visibility_timeout IS NULL OR visibility_timeout  *)
(* < datetime('now')) as the visible ones, and their difference as the ones *)
(* in flight.                                                               *)
QueueAttributes(queue_name) ==
    IF queue_name \notin DOMAIN queues THEN None
    ELSE LET total_active_messages ==
                 Cardinality({id \in DOMAIN messages :
                                 /\ messages[id].queue_name = queue_name
                                 /\ messages[id].status = "active"})
             visible_messages ==
                 Cardinality({id \in DOMAIN messages :
                                 /\ messages[id].queue_name = queue_name
                                 /\ messages[id].status = "active"
                                 /\ \/ ~IsSome(messages[id].visibility_timeout)
                                    \/ Rfc3339LtSqliteNow(
                                          Unwrap(messages[id].visibility_timeout), now)})
         IN Some([approximate_number_of_messages |-> visible_messages,
                  approximate_number_of_messages_not_visible |->
                      total_active_messages - visible_messages,
                  created_timestamp |-> queues[queue_name]])

(* QueueService::get_queue_attributes *)
GetQueueAttributes(queue_name) ==
    /\ lastOp' = [op |-> "GetQueueAttributes", q |-> queue_name, ids |-> <<>>,
                   n |-> 0, ok |-> TRUE, attrs |-> QueueAttributes(queue_name)]
    /\ UNCHANGED <<now, ticks, db, nextId, message_notifiers, poll, senders>>
    /\ HistNext

----------------------------------------------------------------------------
(* Deleting and restoring. *)

(* The DeleteMessageBatch handler over Database::delete_messages_batch:     *)
(* one UPDATE ... WHERE id = ?1 per handle inside one transaction; the      *)
(* handler reports Ok(false), a handle that matches no row, as a failed     *)
(* entry.                                                                   *)
DeleteMessagesBatch(message_ids) ==
    /\ message_ids # <<>>
    /\ messages' =
          [id \in DOMAIN messages |->
              IF id \in Range(message_ids)
              THEN [messages[id] EXCEPT !.status = "deleted", !.deleted_at = Some(now)]
              ELSE messages[id]]
    /\ lastOp' = [op |-> "DeleteMessagesBatch", q |-> <<>>, ids |-> message_ids,
                   n |-> Len(message_ids), ok |-> TRUE,
                   results |-> [i \in 1..Len(message_ids) |->
                                   IF message_ids[i] \in DOMAIN messages
                                   THEN "Ok" ELSE "Err"]]
    /\ UNCHANGED <<now, ticks, queues, queue_config, dead_letter_messages, nextId,
                   message_notifiers, poll, senders>>
    /\ HistNext

(* ReceivedMessage::new: the receipt handle is a copy of the message id. *)
ReceivedMessage(id) == [id |-> id, receipt_handle |-> id]

(* The delete accepting a handle only under the first lease of the message. *)
DeleteMessageUnderFirstLease(receipt_handle) ==
    LET valid == /\ receipt_handle \in DOMAIN messages
                 /\ messages[receipt_handle].receive_count <= 1
    IN /\ messages' =
             [id \in DOMAIN messages |->
                 IF id = receipt_handle /\ valid
                 THEN [messages[id] EXCEPT !.status = "deleted", !.deleted_at = Some(now)]
                 ELSE messages[id]]
       /\ lastOp' = Op("DeleteMessage", <<>>, <<receipt_handle>>, 0, valid)
       /\ UNCHANGED <<now, ticks, queues, queue_config, dead_letter_messages, nextId,
                      message_notifiers, poll, senders>>
       /\ HistNext

(* Database::delete_message: UPDATE ... WHERE id = ?1 *)
DeleteMessage(receipt_handle) ==
    /\ messages' =
          [id \in DOMAIN messages |->
              IF id = receipt_handle
              THEN [messages[id] EXCEPT !.status = "deleted", !.deleted_at = Some(now)]
              ELSE messages[id]]
    /\ lastOp' = Op("DeleteMessage", <<>>, <<receipt_handle>>,
                    0, receipt_handle \in DOMAIN messages)
    /\ UNCHANGED <<now, ticks, queues, queue_config, dead_letter_messages, nextId,
                   message_notifiers, poll, senders>>
    /\ HistNext

(* The restore also resetting the receive counter of the row. *)
RestoreResettingCount(message_id) ==
    /\ messages' =
          [id \in DOMAIN messages |->
              IF id = message_id
              THEN [messages[id] EXCEPT !.status = "active", !.deleted_at = None,
                                        !.visibility_timeout = None,
                                        !.receive_count = 0]
              ELSE messages[id]]
    /\ lastOp' = Op("RestoreMessage", <<>>, <<message_id>>,
                    0, message_id \in DOMAIN messages)
    /\ UNCHANGED <<now, ticks, queues, queue_config, dead_letter_messages, nextId,
                   message_notifiers, poll, senders>>
    /\ HistNext

(* Database::restore_message: UPDATE ... WHERE id = ?1 *)
RestoreMessage(message_id) ==
    /\ messages' =
          [id \in DOMAIN messages |->
              IF id = message_id
              THEN [messages[id] EXCEPT !.status = "active", !.deleted_at = None,
                                        !.visibility_timeout = None]
              ELSE messages[id]]
    /\ lastOp' = Op("RestoreMessage", <<>>, <<message_id>>,
                    0, message_id \in DOMAIN messages)
    /\ UNCHANGED <<now, ticks, queues, queue_config, dead_letter_messages, nextId,
                   message_notifiers, poll, senders>>
    /\ HistNext

----------------------------------------------------------------------------
(* Retention. *)

(* The sweep reclaiming every row whose deadline has passed, whatever its    *)
(* status.                                                                  *)
ExpiredAnyStatus ==
    {id \in DOMAIN messages :
        /\ IsSome(messages[id].visibility_timeout)
        /\ Unwrap(messages[id].visibility_timeout) < now}

(* KeepForever: UPDATE messages SET status = 'active', visibility_timeout = *)
(* NULL WHERE status = 'processing' AND visibility_timeout < ?1             *)
Expired ==
    {id \in DOMAIN messages :
        /\ messages[id].status = "processing"
        /\ IsSome(messages[id].visibility_timeout)
        /\ Unwrap(messages[id].visibility_timeout) < now}

(* The old rows among the active ones only. *)
AgedActiveOnly(delete_after_days) ==
    {id \in DOMAIN messages :
        /\ messages[id].status = "active"
        /\ messages[id].created_at < now - delete_after_days * SecondsPerDay}

(* Delete: DELETE FROM messages WHERE created_at < ?1 *)
Aged(delete_after_days) ==
    {id \in DOMAIN messages :
        messages[id].created_at < now - delete_after_days * SecondsPerDay}

DefaultDeleteAfterDays == 14

(* The sweep also resetting the receive counter of the rows it reclaims. *)
CleanupResettingCount(mode, delete_after_days) ==
    /\ mode = "KeepForever"
    /\ messages' =
          [id \in DOMAIN messages |->
              IF id \in Expired
              THEN [messages[id] EXCEPT !.status = "active",
                                        !.visibility_timeout = None,
                                        !.receive_count = 0]
              ELSE messages[id]]
    /\ lastOp' = Op("CleanupKeepForever", <<>>, <<>>, Cardinality(Expired), TRUE)
    /\ UNCHANGED <<now, ticks, queues, queue_config, dead_letter_messages, nextId,
                   message_notifiers, poll, senders>>
    /\ HistNext

(* Database::cleanup_expired_messages *)
CleanupExpiredMessages(mode, delete_after_days) ==
    /\ IF mode = "KeepForever"
       THEN /\ messages' =
                  [id \in DOMAIN messages |->
                      IF id \in Expired
                      THEN [messages[id] EXCEPT !.status = "active",
                                                !.visibility_timeout = None]
                      ELSE messages[id]]
            /\ lastOp' = Op("CleanupKeepForever", <<>>, <<>>,
                            Cardinality(Expired), TRUE)
       ELSE LET aged == Aged(OrElse(delete_after_days, DefaultDeleteAfterDays))
            IN /\ messages' = Drop(messages, aged)
               /\ lastOp' = Op("CleanupDelete", <<>>, <<>>,
                               Cardinality(aged), TRUE)
    /\ UNCHANGED <<now, ticks, queues, queue_config, dead_letter_messages, nextId,
                   message_notifiers, poll, senders>>
    /\ HistNext

(* The clock advances by d seconds. *)
Tick(d) ==
    /\ ticks < MaxTicks
    /\ ticks' = ticks + 1
    /\ now' = now + d
    /\ lastOp' = Op("Tick", <<>>, <<>>, d, TRUE)
    /\ UNCHANGED <<queues, queue_config, messages, dead_letter_messages, nextId,
                   message_notifiers, poll, senders>>
    /\ HistNext

----------------------------------------------------------------------------
(* The dead-letter table. *)

(* The move that leaves the original row in the messages table. *)
MoveKeepingOriginal(message_id, failure_reason) ==
    /\ message_id \in DOMAIN messages
    /\ messages[message_id].queue_name \in DOMAIN queue_config
    /\ dead_letter_messages' =
          Put(dead_letter_messages, message_id,
              [original_queue_name |-> messages[message_id].queue_name,
               dlq_name |-> DlqName,
               failure_reason |-> failure_reason,
               moved_at |-> now,
               original_body |-> messages[message_id].body,
               original_attributes |-> "",
               receive_count |-> messages[message_id].receive_count,
               original_created_at |-> messages[message_id].created_at])
    /\ lastOp' = Op("MoveMessageToDlq", <<>>, <<message_id>>, 1, TRUE)
    /\ UNCHANGED <<now, ticks, queues, queue_config, messages, nextId,
                   message_notifiers, poll, senders>>
    /\ HistNext

(* Database::move_message_to_dlq.  The serialized original_message_data     *)
(* repeats the id, body, attributes, created_at and receive_count that the  *)
(* row carries in columns of their own.                                     *)
MoveMessageToDlq(message_id, failure_reason) ==
    LET found == /\ message_id \in DOMAIN messages
                 /\ messages[message_id].status # "deleted"
        row == messages[message_id]
        configured == /\ row.queue_name \in DOMAIN queue_config
                      /\ IsSome(queue_config[row.queue_name].dead_letter_target_arn)
        dlq_arn == Unwrap(queue_config[row.queue_name].dead_letter_target_arn)
        record == [original_queue_name |-> row.queue_name,
                   dlq_name |-> LastSegment(dlq_arn),
                   failure_reason |-> failure_reason,
                   moved_at |-> now,
                   original_body |-> row.body,
                   original_attributes |-> OrElse(row.attributes, ""),
                   receive_count |-> row.receive_count,
                   original_created_at |-> row.created_at]
    IN /\ IF found /\ configured /\ message_id \notin DOMAIN dead_letter_messages
          THEN /\ dead_letter_messages' = Put(dead_letter_messages, message_id, record)
               /\ messages' = Drop(messages, {message_id})
               /\ lastOp' = Op("MoveMessageToDlq", <<>>, <<message_id>>, 1, TRUE)
          ELSE /\ UNCHANGED <<messages, dead_letter_messages>>
               /\ lastOp' = Op("MoveMessageToDlq", <<>>, <<message_id>>, 0,
                               ~(found /\ configured))
       /\ UNCHANGED <<now, ticks, queues, queue_config, nextId, message_notifiers, poll, senders>>
       /\ HistNext

(* Database::get_dlq_messages: the ids of the records of a DLQ (the order   *)
(* by moved_at is not modelled: no operation depends on it).                *)
GetDlqMessages(dlq_name) ==
    {id \in DOMAIN dead_letter_messages : dead_letter_messages[id].dlq_name = dlq_name}

(* WHERE dlq_name = ?1 AND original_queue_name = ?2 *)
RedriveCandidates(dlq_name, source_queue) ==
    {id \in DOMAIN dead_letter_messages :
        /\ dead_letter_messages[id].dlq_name = dlq_name
        /\ dead_letter_messages[id].original_queue_name = source_queue}

(* The selection without its LIMIT. *)
PicksUnlimited(ids, k) ==
    {s \in [1..Cardinality(ids) -> ids] :
        \A i, j \in 1..Cardinality(ids) : i # j => s[i] # s[j]}

(* The one-to-one sequences of length k over a set: the orders in which a   *)
(* SELECT ... LIMIT k may hand out its rows.                                *)
Picks(ids, k) ==
    {s \in [1..k -> ids] : \A i, j \in 1..k : i # j => s[i] # s[j]}

(* The redrive handing the receive counter of the record on to the new     *)
(* message.                                                                 *)
RedriveKeepingCount(dlq_name, source_queue, max_messages) ==
    LET limit == OrElse(max_messages, DefaultRedriveLimit)
        candidates == RedriveCandidates(dlq_name, source_queue)
        k == Min(limit, Cardinality(candidates))
    IN /\ \E s \in Picks(candidates, k) :
             /\ messages' =
                   [id \in DOMAIN messages \cup (nextId..(nextId + k - 1)) |->
                       IF id \in DOMAIN messages THEN messages[id]
                       ELSE LET r == dead_letter_messages[s[id - nextId + 1]]
                            IN [MessageRow(source_queue, r.original_body, now,
                                           Some(r.original_attributes),
                                           None, None, None, None)
                                  EXCEPT !.receive_count = r.receive_count]]
             /\ dead_letter_messages' = Drop(dead_letter_messages, Range(s))
             /\ lastOp' = [op |-> "RedriveDlqMessages", q |-> source_queue,
                            ids |-> [i \in 1..k |-> nextId + i - 1], n |-> k,
                            ok |-> TRUE, dlq |-> dlq_name, max |-> max_messages]
       /\ nextId' = nextId + k
       /\ UNCHANGED <<now, ticks, queues, queue_config, message_notifiers, poll, senders>>
       /\ HistNext

(* Database::redrive_dlq_messages: each selected record becomes a message   *)
(* of the source queue under a fresh id and is deleted.                     *)
RedriveDlqMessages(dlq_name, source_queue, max_messages) ==
    LET limit == OrElse(max_messages, DefaultRedriveLimit)
        candidates == RedriveCandidates(dlq_name, source_queue)
        k == Min(limit, Cardinality(candidates))
    IN /\ \E s \in Picks(candidates, k) :
             /\ messages' =
                   [id \in DOMAIN messages \cup (nextId..(nextId + k - 1)) |->
                       IF id \in DOMAIN messages THEN messages[id]
                       ELSE LET r == dead_letter_messages[s[id - nextId + 1]]
                            IN MessageRow(source_queue, r.original_body, now,
                                          Some(r.original_attributes),
                                          None, None, None, None)]
             /\ dead_letter_messages' = Drop(dead_letter_messages, Range(s))
             /\ lastOp' = [op |-> "RedriveDlqMessages", q |-> source_queue,
                            ids |-> [i \in 1..k |-> nextId + i - 1], n |-> k,
                            ok |-> TRUE, dlq |-> dlq_name, max |-> max_messages]
       /\ nextId' = nextId + k
       /\ UNCHANGED <<now, ticks, queues, queue_config, message_notifiers, poll, senders>>
       /\ HistNext

(* Database::purge_dlq *)
PurgeDlq(dlq_name) ==
    /\ dead_letter_messages' = Drop(dead_letter_messages, GetDlqMessages(dlq_name))
    /\ lastOp' = Op("PurgeDlq", dlq_name, <<>>,
                    Cardinality(GetDlqMessages(dlq_name)), TRUE)
    /\ UNCHANGED <<now, ticks, queues, queue_config, messages, nextId,
                   message_notifiers, poll, senders>>
    /\ HistNext

----------------------------------------------------------------------------
(* QueueService::receive_messages_enhanced, one long-polling receive at a   *)
(* time.  Each call of receive_message inside it is a step of its own; the  *)
(* calls of other tasks run in between.                                     *)
(*   first      the loop "for _ in 0..max_messages" before any waiting      *)
(*   subscribe  about to call get_notification_receiver                     *)
(*   waiting    in tokio::select! on the sleep and on recv()                *)
(*   woken      the loop after recv() returned Ok                           *)
(*   return     about to return poll.got                                    *)

(* The receive is left with its result; what else it held is dropped. *)
Returning(p) == [IdlePoll EXCEPT !.pc = "return", !.q = p.q, !.got = p.got]

PollStart(q, max_messages, wait_time_seconds) ==
    /\ poll.pc = "idle"
    /\ poll' = [IdlePoll EXCEPT !.pc = "first", !.q = q, !.max = max_messages,
                                !.wait = wait_time_seconds, !.i = max_messages]
    /\ lastOp' = Op("PollStep", q, <<>>, 0, TRUE)
    /\ UNCHANGED <<now, ticks, db, nextId, message_notifiers, senders>>
    /\ HistNext

(* After the first loop: "if !messages.is_empty() || wait_time_seconds == 0" *)
AfterFirst(p) ==
    IF p.got # <<>> \/ p.wait = 0 THEN Returning(p)
    ELSE [p EXCEPT !.pc = "subscribe", !.i = 0]

PollFirst ==
    /\ poll.pc = "first"
    /\ IF poll.i = 0
       THEN /\ poll' = AfterFirst(poll)
            /\ messages' = messages
            /\ lastOp' = Op("PollStep", poll.q, <<>>, 0, TRUE)
       ELSE /\ ReceiveBounded(poll.q)
            /\ \E o \in ReceiveOutcomes(poll.q) :
                  /\ messages' = o.msgs
                  /\ lastOp' = Op("PollReceive", poll.q, o.ret, Len(o.ret), TRUE)
                  /\ poll' = IF o.ret = <<>> THEN AfterFirst(poll)
                             ELSE [poll EXCEPT !.got = @ \o o.ret, !.i = @ - 1]
    /\ UNCHANGED <<now, ticks, queues, queue_config, dead_letter_messages, nextId,
                   message_notifiers, senders>>
    /\ HistNext

(* The subscription with a sleep of the whole wait_time_seconds. *)
PollSubscribeUncapped ==
    /\ poll.pc = "subscribe"
    /\ message_notifiers' = message_notifiers \cup {poll.q}
    /\ poll' = [poll EXCEPT !.pc = "waiting", !.pending = 0,
                   !.deadline = now + poll.wait]
    /\ lastOp' = Op("PollStep", poll.q, <<>>, 0, TRUE)
    /\ UNCHANGED <<now, ticks, db, nextId, senders>>
    /\ HistNext

(* get_notification_receiver, then tokio::time::sleep(min(wait, 20)). *)
PollSubscribe ==
    /\ poll.pc = "subscribe"
    /\ message_notifiers' = message_notifiers \cup {poll.q}
    /\ poll' = [poll EXCEPT !.pc = "waiting", !.pending = 0,
                   !.deadline = now + Min(poll.wait, LongPollCapSeconds)]
    /\ lastOp' = Op("PollStep", poll.q, <<>>, 0, TRUE)
    /\ UNCHANGED <<now, ticks, db, nextId, senders>>
    /\ HistNext

(* The sleep completes: break. *)
PollTimeout ==
    /\ poll.pc = "waiting"
    /\ now >= poll.deadline
    /\ poll' = Returning(poll)
    /\ lastOp' = Op("PollStep", poll.q, <<>>, 0, TRUE)
    /\ UNCHANGED <<now, ticks, db, nextId, message_notifiers, senders>>
    /\ HistNext

(* recv() returns Ok(()). *)
PollWake ==
    /\ poll.pc = "waiting"
    /\ poll.pending > 0
    /\ poll' = [poll EXCEPT !.pc = "woken", !.pending = @ - 1,
                            !.i = poll.max - Len(poll.got)]
    /\ lastOp' = Op("PollStep", poll.q, <<>>, 0, TRUE)
    /\ UNCHANGED <<now, ticks, db, nextId, message_notifiers, senders>>
    /\ HistNext

(* After the loop of a wakeup: "if !messages.is_empty() { break; }" *)
AfterWoken(p) ==
    IF p.got # <<>> THEN Returning(p)
    ELSE [p EXCEPT !.pc = "waiting", !.i = 0]

PollWoken ==
    /\ poll.pc = "woken"
    /\ IF poll.i = 0
       THEN /\ poll' = AfterWoken(poll)
            /\ messages' = messages
            /\ lastOp' = Op("PollStep", poll.q, <<>>, 0, TRUE)
       ELSE /\ ReceiveBounded(poll.q)
            /\ \E o \in ReceiveOutcomes(poll.q) :
                  /\ messages' = o.msgs
                  /\ lastOp' = Op("PollReceive", poll.q, o.ret, Len(o.ret), TRUE)
                  /\ poll' =
                       IF o.ret = <<>> THEN AfterWoken(poll)
                       ELSE IF Len(poll.got) + 1 >= poll.max
                            THEN Returning([poll EXCEPT !.got = @ \o o.ret])
                            ELSE [poll EXCEPT !.got = @ \o o.ret, !.i = @ - 1]
    /\ UNCHANGED <<now, ticks, queues, queue_config, dead_letter_messages, nextId,
                   message_notifiers, senders>>
    /\ HistNext

(* Ok(messages) *)
PollReturn ==
    /\ poll.pc = "return"
    /\ poll' = IdlePoll
    /\ lastOp' = Op("ReceiveMessagesEnhanced", poll.q, poll.got, Len(poll.got), TRUE)
    /\ UNCHANGED <<now, ticks, db, nextId, message_notifiers, senders>>
    /\ HistNext

----------------------------------------------------------------------------
(* The inputs the operations are tried with. *)

MessageIds == 1..MaxIds

DlqPolicy(max) ==
    [NoAttributes EXCEPT !.RedrivePolicy = Some(RedrivePolicy(Some(max), Some(DlqArn)))]

RetentionModes == {"KeepForever", "Delete"}

PollWaits == {0, LongPollCapSeconds}

----------------------------------------------------------------------------
(* A standard queue without a dead-letter policy: sends, the single and the *)
(* batch receive, deletes, restores, the KeepForever sweep and the clock,   *)
(* which advances by the length of a lease.                                 *)

Next ==
    \/ nextId <= MaxIds /\ SendMessage(QStd, "a", None, None)
    \/ ReceiveMessage(QStd)
    \/ \E max \in 1..MaxIds : ReceiveMessagesBatch(QStd, max)
    \/ \E id \in MessageIds : DeleteMessage(id)
    \/ \E id \in MessageIds : RestoreMessage(id)
    \/ CleanupExpiredMessages("KeepForever", None)
    \/ Tick(LeaseSeconds)

Spec == Init /\ [][Next]_vars

----------------------------------------------------------------------------
(* The same with the long-polling receive. *)

NextPoll ==
    \/ nextId <= MaxIds /\ SendMessage(QStd, "a", None, None)
    \/ ReceiveMessage(QStd)
    \/ ReceiveMessagesBatch(QStd, MaxPollMax)
    \/ PollStart(QStd, MaxPollMax, LongPollCapSeconds)
    \/ PollFirst
    \/ PollSubscribe
    \/ PollTimeout
    \/ PollWake
    \/ PollWoken
    \/ PollReturn
    \/ \E id \in MessageIds : DeleteMessage(id)
    \/ \E id \in MessageIds : RestoreMessage(id)
    \/ CleanupExpiredMessages("KeepForever", None)
    \/ Tick(LeaseSeconds)

SpecPoll == Init /\ [][NextPoll]_vars

----------------------------------------------------------------------------
(* Redelivery: a standard queue that may be given a dead-letter policy with *)
(* max_receive_count 1, without RestoreMessage.  The clock keeps advancing, *)
(* the scheduler keeps firing the sweep, and receives keep being issued; a  *)
(* receive that can deliver a message infinitely often eventually does.     *)

NextRedelivery ==
    \/ nextId <= MaxIds /\ SendMessage(QStd, "a", None, None)
    \/ SetQueueAttributes(QStd, DlqPolicy(1))
    \/ ReceiveMessage(QStd)
    \/ \E max \in 1..MaxIds : ReceiveMessagesBatch(QStd, max)
    \/ \E id \in MessageIds : DeleteMessage(id)
    \/ CleanupExpiredMessages("KeepForever", None)
    \/ Tick(LeaseSeconds)

SpecRedelivery ==
    /\ Init
    /\ [][NextRedelivery]_vars
    /\ WF_vars(Tick(LeaseSeconds))
    /\ WF_vars(CleanupExpiredMessages("KeepForever", None))
    /\ WF_vars(ReceiveMessage(QStd))
    /\ \A id \in MessageIds : SF_vars(ReceiveMessage(QStd) /\ id \in DeliveredNow)

----------------------------------------------------------------------------
(* A FIFO queue: created, sent to with and without a message group, read    *)
(* with the single receive, swept.  No message is deleted.                  *)

Bodies == {"a", "b"}

NextFifo ==
    \/ CreateQueue(QFifo)
    \/ \E body \in Bodies : \E group_id \in {None, Some("g")} :
          nextId <= MaxIds /\ SendMessageEnhanced(QFifo, body, None, None, 0, group_id)
    \/ ReceiveMessage(QFifo)
    \/ CleanupExpiredMessages("KeepForever", None)
    \/ Tick(LeaseSeconds)

SpecFifo == Init /\ [][NextFifo]_vars

----------------------------------------------------------------------------
(* Deduplication: both sends, with and without a deduplication id, to two   *)
(* queue names; receives and deletes; the clock advances by a lease or by   *)
(* the deduplication window.                                                *)

DedupIds == {None, Some("d")}

NextDedup ==
    \/ \E q \in {QStd, QFifo} : \E dedup \in DedupIds :
          nextId <= MaxIds /\ SendMessage(q, "a", None, dedup)
    \/ \E q \in {QStd, QFifo} : \E dedup \in DedupIds :
          nextId <= MaxIds /\ SendMessageEnhanced(q, "a", None, dedup, 0, None)
    \/ ReceiveMessage(QStd)
    \/ \E id \in MessageIds : DeleteMessage(id)
    \/ \E d \in {LeaseSeconds, DedupWindowSeconds} : Tick(d)

SpecDedup == Init /\ [][NextDedup]_vars

----------------------------------------------------------------------------
(* Dead letters: a standard queue that may be given a dead-letter policy    *)
(* with max_receive_count 1; sends, the single and the batch receive, the   *)
(* sweep and the clock; moves to the dead-letter table, redrives, purges.   *)

DlqMessageIds == 1..MaxDlqIds

RedriveLimits == {None, Some(1)}

(* The number of ids a redrive takes. *)
RedriveCount(dlq_name, source_queue, max_messages) ==
    Min(OrElse(max_messages, DefaultRedriveLimit),
        Cardinality(RedriveCandidates(dlq_name, source_queue)))

NextDlq ==
    \/ SetQueueAttributes(QStd, DlqPolicy(1))
    \/ nextId <= MaxDlqIds /\ SendMessage(QStd, "a", None, None)
    \/ ReceiveMessage(QStd)
    \/ ReceiveMessagesBatch(QStd, MaxDlqIds)
    \/ CleanupExpiredMessages("KeepForever", None)
    \/ Tick(LeaseSeconds)
    \/ \E id \in DlqMessageIds : MoveMessageToDlq(id, "r")
    \/ \E max \in RedriveLimits :
          /\ nextId + RedriveCount(DlqName, QStd, max) - 1 <= MaxDlqIds
          /\ RedriveDlqMessages(DlqName, QStd, max)
    \/ PurgeDlq(DlqName)

SpecDlq == Init /\ [][NextDlq]_vars

----------------------------------------------------------------------------
(* Retention: the scheduler's cleanup tick in both retention modes, with    *)
(* the default and with a one-day retention period, over a standard queue   *)
(* that may be given a dead-letter policy; the clock advances by a lease or *)
(* by the default retention period.                                         *)

RetentionDays == {None, Some(1)}

RetentionTicks == {LeaseSeconds, DefaultDeleteAfterDays * SecondsPerDay}

CleanupOps == {"CleanupKeepForever", "CleanupDelete"}

NextRetention ==
    \/ nextId <= MaxIds /\ SendMessage(QStd, "a", None, None)
    \/ SetQueueAttributes(QStd, DlqPolicy(1))
    \/ ReceiveMessage(QStd)
    \/ \E max \in 1..MaxIds : ReceiveMessagesBatch(QStd, max)
    \/ \E id \in MessageIds : DeleteMessage(id)
    \/ \E id \in MessageIds : RestoreMessage(id)
    \/ \E mode \in RetentionModes : \E days \in RetentionDays :
          CleanupExpiredMessages(mode, days)
    \/ \E d \in RetentionTicks : Tick(d)

SpecRetention == Init /\ [][NextRetention]_vars

----------------------------------------------------------------------------
(* A FIFO queue under retention: created, sent to, read and swept in both   *)
(* retention modes; the clock advances by a lease or by the default         *)
(* retention period.                                                        *)

NextFifoRetention ==
    \/ CreateQueue(QFifo)
    \/ \E body \in Bodies :
          nextId <= MaxIds /\ SendMessageEnhanced(QFifo, body, None, None, 0, None)
    \/ ReceiveMessage(QFifo)
    \/ \E mode \in RetentionModes : CleanupExpiredMessages(mode, None)
    \/ \E d \in RetentionTicks : Tick(d)

SpecFifoRetention == Init /\ [][NextFifoRetention]_vars

----------------------------------------------------------------------------
(* Concurrent sends: two callers inside send_message or                     *)
(* send_message_enhanced at the same time, to a queue that may have been    *)
(* created as a FIFO queue, with and without a deduplication id.  No row is *)
(* removed.                                                                 *)

SendKinds == {"plain", "enhanced"}

NextConcurrentSend ==
    \/ CreateQueue(QFifo)
    \/ \E s \in Senders : \E kind \in SendKinds : \E body \in Bodies :
          \E dedup \in DedupIds :
             nextId <= MaxIds /\ SendBegin(s, kind, QFifo, body, dedup, None)
    \/ \E s \in Senders : SendConfig(s)
    \/ \E s \in Senders : SendCheck(s)
    \/ \E s \in Senders : SendInsert(s)
    \/ \E s \in Senders : SendNotify(s)
    \/ Tick(LeaseSeconds)

SpecConcurrentSend == Init /\ [][NextConcurrentSend]_vars

----------------------------------------------------------------------------
(* The long-polling receive with its scheduling: a wait of 20 or of 30      *)
(* seconds, sends and single receives of other callers, and a clock that    *)
(* advances by the cap of the wait.  The clock keeps advancing; the runtime *)
(* keeps running the polling task, so each of its steps that stays possible *)
(* is taken; select! picks among its ready branches at random, so a timeout *)
(* that is ready again and again is eventually taken.                       *)

LongPollWaits == {LongPollCapSeconds, LeaseSeconds}

NextPollFair ==
    \/ nextId <= MaxIds /\ SendMessage(QStd, "a", None, None)
    \/ ReceiveMessage(QStd)
    \/ \E wait \in LongPollWaits : PollStart(QStd, MaxPollMax, wait)
    \/ PollFirst
    \/ PollSubscribe
    \/ PollTimeout
    \/ PollWake
    \/ PollWoken
    \/ PollReturn
    \/ Tick(LongPollCapSeconds)

SpecPollFair ==
    /\ Init
    /\ [][NextPollFair]_vars
    /\ WF_vars(Tick(LongPollCapSeconds))
    /\ WF_vars(PollFirst)
    /\ WF_vars(PollSubscribe)
    /\ WF_vars(PollWake)
    /\ WF_vars(PollWoken)
    /\ SF_vars(PollTimeout)
    /\ WF_vars(PollReturn)

----------------------------------------------------------------------------
(* Queues: a standard name, a FIFO name and the bare suffix are created and *)
(* deleted, given attributes and sent to, whether or not the queue has been *)
(* created.                                                                 *)

QueueNames == {QStd, QFifo, QBareFifo}

VisibilityAttribute == [NoAttributes EXCEPT !.VisibilityTimeout = Some(1)]

NextQueues ==
    \/ \E name \in QueueNames : CreateQueue(name)
    \/ \E name \in QueueNames : DeleteQueue(name)
    \/ \E name \in {QStd, QFifo} : SetQueueAttributes(name, VisibilityAttribute)
    \/ \E q \in {QStd, QFifo} :
          nextId <= MaxIds /\ SendMessageEnhanced(q, "a", None, None, 0, None)
    \/ Tick(LeaseSeconds)

SpecQueues == Init /\ [][NextQueues]_vars

----------------------------------------------------------------------------
(* Leases: a standard queue that may be configured with a visibility        *)
(* timeout of one second; sends, the single and the batch receive, the      *)
(* sweep and the clock.                                                     *)

NextLease ==
    \/ SetQueueAttributes(QStd, VisibilityAttribute)
    \/ nextId <= MaxIds /\ SendMessage(QStd, "a", None, None)
    \/ ReceiveMessage(QStd)
    \/ \E max \in 1..MaxIds : ReceiveMessagesBatch(QStd, max)
    \/ CleanupExpiredMessages("KeepForever", None)
    \/ Tick(LeaseSeconds)

SpecLease == Init /\ [][NextLease]_vars

----------------------------------------------------------------------------
(* Selection: two queue names, neither created; sends with and without a    *)
(* delay; the single and the batch receive on both names; deletes; a        *)
(* dead-letter policy on the first name; the clock advances by a lease or   *)
(* by a day.                                                                *)

DelaySeconds == {0, LeaseSeconds}

SelectionTicks == {LeaseSeconds, SecondsPerDay}

NextSelection ==
    \/ SetQueueAttributes(QStd, DlqPolicy(1))
    \/ \E q \in {QStd, QOther} : \E delay_seconds \in DelaySeconds :
          /\ nextId <= MaxIds
          /\ SendMessageEnhanced(q, "a", None, None, delay_seconds, None)
    \/ \E q \in {QStd, QOther} : ReceiveMessage(q)
    \/ \E q \in {QStd, QOther} : ReceiveMessagesBatch(q, MaxIds)
    \/ \E id \in MessageIds : DeleteMessage(id)
    \/ \E d \in SelectionTicks : Tick(d)

SpecSelection == Init /\ [][NextSelection]_vars

----------------------------------------------------------------------------
(* Content-based deduplication: a queue that may be created as a FIFO queue *)
(* and may lose the flags again through SetQueueAttributes; sends of two    *)
(* bodies with and without a deduplication id; deletes; the clock advances  *)
(* by a lease or by the deduplication window.                               *)

NextContentDedup ==
    \/ CreateQueue(QFifo)
    \/ SetQueueAttributes(QFifo, VisibilityAttribute)
    \/ \E body \in Bodies : \E dedup \in DedupIds :
          nextId <= MaxIds /\ SendMessageEnhanced(QFifo, body, None, dedup, 0, None)
    \/ \E id \in MessageIds : DeleteMessage(id)
    \/ \E d \in {LeaseSeconds, DedupWindowSeconds} : Tick(d)

SpecContentDedup == Init /\ [][NextContentDedup]_vars

----------------------------------------------------------------------------
(* Every way into a queue: single sends with and without a group, batch     *)
(* sends, and redrives from the dead-letter table, for a standard queue and *)
(* for a queue that may be created as a FIFO queue and given a dead-letter  *)
(* policy.                                                                  *)

BatchEntry(body, deduplication_id) ==
    [body |-> body, attributes |-> None, deduplication_id |-> deduplication_id,
     delay_seconds |-> 0]

BatchEntries ==
    {<<BatchEntry("a", None)>>,
     <<BatchEntry("a", Some("d")), BatchEntry("b", Some("d"))>>}

NextEntry ==
    \/ CreateQueue(QFifo)
    \/ SetQueueAttributes(QFifo, DlqPolicy(1))
    \/ \E q \in {QStd, QFifo} : \E group_id \in {None, Some("g")} :
          nextId <= MaxIds /\ SendMessageEnhanced(q, "a", None, None, 0, group_id)
    \/ \E q \in {QStd, QFifo} : \E entries \in BatchEntries :
          /\ nextId + Len(entries) - 1 <= MaxIds
          /\ SendMessagesBatch(q, entries)
    \/ \E id \in MessageIds : MoveMessageToDlq(id, "r")
    \/ /\ nextId + RedriveCount(DlqName, QFifo, None) - 1 <= MaxIds
       /\ RedriveDlqMessages(DlqName, QFifo, None)

SpecEntry == Init /\ [][NextEntry]_vars

----------------------------------------------------------------------------
(* The size of a receive: a queue created as a FIFO queue, so that its rows *)
(* are received in the order of their sequence numbers, filled with one     *)
(* message more than the limit of a batch; the batch receive while the      *)
(* queue is nearly empty, and the long-polling receive, both asked for one  *)
(* message or for one more than the limit.  All of it happens within the    *)
(* wait of a long poll: the clock stands still.                             *)

OverLimit == BatchReceiveLimit + 1

ReceiveMaxima == {1, OverLimit}

(* The bodies sent, one after the other; they differ, since the queue drops *)
(* a body it has seen within the deduplication window.                      *)
LimitBodies == <<"a", "b", "c", "d", "e", "f", "g", "h", "i", "j", "k">>

NextReceiveLimit ==
    \/ CreateQueue(QFifo)
    \/ /\ IsFifo(QFifo)
       /\ nextId <= OverLimit
       /\ SendMessageEnhanced(QFifo, LimitBodies[nextId], None, None, 0, None)
    \/ \E max \in ReceiveMaxima :
          /\ Cardinality(DOMAIN messages) <= MaxIds
          /\ ReceiveMessagesBatch(QFifo, max)
    \/ \E max \in ReceiveMaxima : \E wait \in PollWaits : PollStart(QFifo, max, wait)
    \/ PollFirst
    \/ PollSubscribe
    \/ PollWake
    \/ PollWoken
    \/ PollReturn

SpecReceiveLimit == Init /\ [][NextReceiveLimit]_vars

----------------------------------------------------------------------------
(* Batches: batch sends whose entries carry their message ids, so that an   *)
(* entry can fail on an id that is already stored, and batch deletes, whose *)
(* handles may match no row; the single receive and the clock.              *)

ServiceEntry(message_id, body) ==
    [queue_name |-> QStd, message_id |-> message_id, body |-> body,
     attributes |-> None, deduplication_id |-> None, delay_seconds |-> 0]

BatchLengths == 1..MaxIds

ServiceBatches ==
    UNION {[1..n -> {ServiceEntry(id, body) : id \in MessageIds, body \in Bodies}] :
              n \in BatchLengths}

DeleteBatches == UNION {[1..n -> MessageIds] : n \in BatchLengths}

NextBatch ==
    \/ \E entries \in ServiceBatches : QueueServiceSendMessagesBatch(entries)
    \/ \E message_ids \in DeleteBatches : DeleteMessagesBatch(message_ids)
    \/ ReceiveMessage(QStd)
    \/ Tick(LeaseSeconds)

SpecBatch == Init /\ [][NextBatch]_vars

----------------------------------------------------------------------------
(* The Delete mode: a standard queue with a dead-letter policy; sends,      *)
(* receives, deletes and moves to the dead-letter table; the sweep in       *)
(* Delete mode with the default and with a one-day period; the clock        *)
(* advances by a day or by the default period.                              *)

DeleteModeTicks == {SecondsPerDay, DefaultDeleteAfterDays * SecondsPerDay}

NextDeleteMode ==
    \/ SetQueueAttributes(QStd, DlqPolicy(1))
    \/ nextId <= MaxIds /\ SendMessage(QStd, "a", None, None)
    \/ ReceiveMessage(QStd)
    \/ \E id \in MessageIds : DeleteMessage(id)
    \/ \E id \in MessageIds : MoveMessageToDlq(id, "r")
    \/ \E days \in RetentionDays : CleanupExpiredMessages("Delete", days)
    \/ \E d \in DeleteModeTicks : Tick(d)

SpecDeleteMode == Init /\ [][NextDeleteMode]_vars

----------------------------------------------------------------------------
(* Counting: a standard queue that may be created; sends with and without a *)
(* delay, receives, deletes, the sweep and the clock; the attributes of     *)
(* that queue and of one that is never created are read.                    *)

NextAttributes ==
    \/ CreateQueue(QStd)
    \/ \E delay_seconds \in DelaySeconds :
          /\ nextId <= MaxIds
          /\ SendMessageEnhanced(QStd, "a", None, None, delay_seconds, None)
    \/ ReceiveMessage(QStd)
    \/ \E id \in MessageIds : DeleteMessage(id)
    \/ CleanupExpiredMessages("KeepForever", None)
    \/ Tick(LeaseSeconds)
    \/ \E queue_name \in {QStd, QOther} : GetQueueAttributes(queue_name)

SpecAttributes == Init /\ [][NextAttributes]_vars

----------------------------------------------------------------------------
(* Redrive: a standard queue with a dead-letter policy of max_receive_count *)
(* 1; sends with and without attributes, the single receive, the sweep and  *)
(* the clock; moves to the dead-letter table and redrives.                  *)

MessageAttributes == {None, Some("x")}

NextRedrive ==
    \/ SetQueueAttributes(QStd, DlqPolicy(1))
    \/ \E attributes \in MessageAttributes :
          nextId <= MaxIds /\ SendMessage(QStd, "a", attributes, None)
    \/ ReceiveMessage(QStd)
    \/ CleanupExpiredMessages("KeepForever", None)
    \/ Tick(LeaseSeconds)
    \/ \E id \in MessageIds : MoveMessageToDlq(id, "r")
    \/ /\ nextId + RedriveCount(DlqName, QStd, None) - 1 <= MaxIds + 1
       /\ RedriveDlqMessages(DlqName, QStd, None)

SpecRedrive == Init /\ [][NextRedrive]_vars

----------------------------------------------------------------------------
(* Properties. *)

(* C1: a message a receive has delivered is delivered by no receive, single, *)
(* batch or long-polling, until a cleanup sweep has reclaimed its expired   *)
(* lease or RestoreMessage was called on it.                                *)
LeaseExclusivity == [][DeliveredNow \cap hist.leased = {}]_vars

(* A receive has just returned nothing from a queue whose message is leased. *)
LeaseExclusivityWitness ==
    /\ lastOp.op \in ReceiveOps
    /\ lastOp.ids = <<>>
    /\ \E id \in hist.leased :
          /\ messages[id].queue_name = lastOp.q
          /\ messages[id].status = "processing"
          /\ \A o \in DOMAIN messages : messages[o].queue_name = lastOp.q => o = id

(* C2: after DeleteMessage returned true for a message, no receive delivers *)
(* it and no operation, the KeepForever sweep included, makes it eligible,  *)
(* unless RestoreMessage is called on it.                                   *)
DeletedNeverDelivered ==
    /\ [][DeliveredNow \cap hist.deleted = {}]_vars
    /\ [](\A id \in hist.deleted : id \notin Eligible(messages[id].queue_name))

(* A sweep has just run over a deleted message whose lease had expired. *)
DeletedNeverDeliveredWitness ==
    /\ lastOp.op = "CleanupKeepForever"
    /\ \E id \in hist.deleted :
          /\ IsSome(messages[id].visibility_timeout)
          /\ Unwrap(messages[id].visibility_timeout) < now

(* C10: a KeepForever sweep removes no row, changes only the rows that were *)
(* processing with a visibility deadline before now, sets exactly their     *)
(* status to active and their deadline to NULL, and returns their number.   *)
KeepForeverFrame ==
    [][lastOp'.op = "CleanupKeepForever" =>
         LET flipped == {id \in DOMAIN messages :
                            /\ messages[id].status = "processing"
                            /\ IsSome(messages[id].visibility_timeout)
                            /\ Unwrap(messages[id].visibility_timeout) < now}
         IN /\ DOMAIN messages' = DOMAIN messages
            /\ \A id \in flipped :
                  messages'[id] = [messages[id] EXCEPT !.status = "active",
                                                       !.visibility_timeout = None]
            /\ \A id \in DOMAIN messages \ flipped : messages'[id] = messages[id]
            /\ lastOp'.n = Cardinality(flipped)
            /\ UNCHANGED <<queues, queue_config, dead_letter_messages>>]_vars

(* A sweep has just reclaimed one message with its receive counter kept and *)
(* left another, whose lease had not expired, in processing.                *)
KeepForeverFrameWitness ==
    /\ lastOp.op = "CleanupKeepForever"
    /\ lastOp.n = 1
    /\ \E id \in DOMAIN messages :
          /\ messages[id].status = "active"
          /\ messages[id].receive_count > 0
    /\ \E id \in DOMAIN messages :
          /\ messages[id].status = "processing"
          /\ Unwrap(messages[id].visibility_timeout) >= now

(* The lease of message id has passed its deadline. *)
LeaseExpired(id) ==
    /\ IsSome(messages[id].visibility_timeout)
    /\ Unwrap(messages[id].visibility_timeout) < now

(* Message id is active and older than every other active message of its   *)
(* queue.                                                                   *)
OldestActive(id) ==
    /\ messages[id].status = "active"
    /\ \A o \in DOMAIN messages \ {id} :
          (messages[o].queue_name = messages[id].queue_name
             /\ messages[o].status = "active")
          => messages[id].created_at < messages[o].created_at

(* The queue of message id has a dead-letter policy and id has been         *)
(* received max_receive_count times or more.                                *)
ReachedMaxReceiveCount(id) ==
    LET q == messages[id].queue_name
    IN /\ q \in DOMAIN queue_config
       /\ IsSome(queue_config[q].max_receive_count)
       /\ IsSome(queue_config[q].dead_letter_target_arn)
       /\ messages[id].receive_count >= Unwrap(queue_config[q].max_receive_count)

(* A sweep reclaims every delivered, undeleted message whose deadline has   *)
(* passed: active, deadline cleared, receive_count unchanged.               *)
ReclaimedByCleanup ==
    [][lastOp'.op = "CleanupKeepForever" =>
         \A id \in hist.leased \ hist.deleted :
            LeaseExpired(id) =>
               /\ id \in DOMAIN messages'
               /\ messages'[id].status = "active"
               /\ messages'[id].visibility_timeout = None
               /\ messages'[id].receive_count = hist.rcAt[id]]_vars

(* A reclaimed message is delivered again only with receive_count one       *)
(* higher than at its previous delivery.                                    *)
RedeliveredCountsOne ==
    [][\A id \in hist.awaiting \cap DeliveredNow :
          messages'[id].receive_count = hist.rcAt[id] + 1]_vars

(* A single receive returns the reclaimed message that is the oldest active *)
(* message of the queue, unless it has reached max_receive_count.           *)
OldestIsRedelivered ==
    [][\A id \in hist.awaiting :
          (/\ lastOp'.op = "ReceiveMessage"
           /\ lastOp'.q = messages[id].queue_name
           /\ OldestActive(id)
           /\ ~ReachedMaxReceiveCount(id))
          => lastOp'.ids = <<id>>]_vars

(* The lease of message id, delivered k times, can still expire within the  *)
(* clock of the model.                                                      *)
LeasedWithRoom(id, k) ==
    /\ id \in hist.leased \ hist.deleted
    /\ hist.rcAt[id] = k
    /\ IsSome(messages[id].visibility_timeout)
    /\ Unwrap(messages[id].visibility_timeout) < MaxTicks * LeaseSeconds

(* A leased message is eventually redelivered, deleted or, having reached   *)
(* max_receive_count, set aside for the dead-letter queue.                  *)
EventuallyRedeliveredOrSetAside ==
    \A id \in MessageIds : \A k \in 1..(MaxReceives - 1) :
        LeasedWithRoom(id, k) ~>
            \/ id \notin DOMAIN messages
            \/ id \in hist.deleted
            \/ hist.rcAt[id] > k
            \/ messages[id].status = "dlq_pending"

EnqueuedLaterInGroup(a, b) ==
    /\ messages[a].queue_name = messages[b].queue_name
    /\ IsFifo(messages[a].queue_name)
    /\ IsSome(messages[a].message_group_id)
    /\ messages[a].message_group_id = messages[b].message_group_id
    /\ IsSome(messages[a].sequence_number)
    /\ IsSome(messages[b].sequence_number)
    /\ Unwrap(messages[a].sequence_number) < Unwrap(messages[b].sequence_number)

(* C4: within a message group of a FIFO queue no message is delivered after *)
(* a message of the group that was enqueued later, neither by a later       *)
(* receive nor later in the list one receive returns.                       *)
FifoOrderWithinGroup ==
    [][/\ \A id \in DeliveredNow : \A o \in DOMAIN messages :
             EnqueuedLaterInGroup(id, o) => hist.rcAt[o] = 0
       /\ \A i, j \in 1..Len(lastOp'.ids) :
             (lastOp'.op \in ReceiveOps /\ i < j)
             => ~EnqueuedLaterInGroup(lastOp'.ids[j], lastOp'.ids[i])]_vars

SendOps == {"SendMessage", "SendMessageEnhanced"}

(* C5: sends of one (queue, deduplication_id) that fall within five minutes *)
(* insert at most one row, so that two rows of the pair are at least the    *)
(* window apart; every send, whether it inserted or not, reports success    *)
(* with a message id, and inserts at most the row of that id.               *)
DedupIdempotence ==
    /\ [](\A a, b \in DOMAIN messages :
            (/\ a # b
             /\ messages[a].queue_name = messages[b].queue_name
             /\ IsSome(messages[a].deduplication_id)
             /\ messages[a].deduplication_id = messages[b].deduplication_id
             /\ messages[a].created_at <= messages[b].created_at)
            => messages[b].created_at - messages[a].created_at >= DedupWindowSeconds)
    /\ [][lastOp'.op \in SendOps =>
            /\ lastOp'.ok
            /\ Len(lastOp'.ids) = 1
            /\ DOMAIN messages' \ DOMAIN messages \subseteq Range(lastOp'.ids)
            /\ \A id \in DOMAIN messages : messages'[id] = messages[id]]_vars

(* A send with a deduplication id has just reported success with an id that *)
(* has no row, a row of the same queue and deduplication id being less than *)
(* five minutes old.                                                        *)
DedupIdempotenceWitness ==
    /\ lastOp.op \in SendOps
    /\ lastOp.ok
    /\ lastOp.ids[1] \notin DOMAIN messages
    /\ now > 0
    /\ \E id \in DOMAIN messages :
          /\ messages[id].queue_name = lastOp.q
          /\ IsSome(messages[id].deduplication_id)
          /\ messages[id].created_at < now
          /\ messages[id].created_at > now - DedupWindowSeconds

(* The queue of message id has a dead-letter policy. *)
HasDlqPolicy(q) ==
    /\ q \in DOMAIN queue_config
    /\ IsSome(queue_config[q].max_receive_count)
    /\ IsSome(queue_config[q].dead_letter_target_arn)

DlqPromotionAtReceive ==
    [][\A id \in hist.awaiting :
          (/\ lastOp'.op = "ReceiveMessage"
           /\ lastOp'.q = messages[id].queue_name
           /\ OldestActive(id)
           /\ HasDlqPolicy(messages[id].queue_name)
           /\ hist.rcAt[id] = Unwrap(queue_config[messages[id].queue_name].max_receive_count)
           /\ messages[id].receive_count = hist.rcAt[id])
          => /\ id \notin DeliveredNow
             /\ id \notin DOMAIN messages'
             /\ id \in DOMAIN dead_letter_messages'
             /\ dead_letter_messages'[id].dlq_name = DlqName
             /\ dead_letter_messages'[id].original_body = messages[id].body]_vars

(* C8: on a queue with a dead-letter policy no receive delivers a message   *)
(* with a resulting receive_count above max_receive_count.                  *)
DeliveryBound ==
    [][\A id \in DeliveredNow :
          HasDlqPolicy(messages'[id].queue_name)
          => messages'[id].receive_count
                <= Unwrap(queue_config[messages'[id].queue_name].max_receive_count)]_vars

(* C9: a redrive that reports N takes N = min(max or 10, matching records), *)
(* inserts N new messages of the source queue, removes N matching records   *)
(* and nothing else, and keeps the number of rows of the two tables.        *)
RedriveConservation ==
    [][lastOp'.op = "RedriveDlqMessages" =>
         LET matching == {id \in DOMAIN dead_letter_messages :
                            /\ dead_letter_messages[id].dlq_name = lastOp'.dlq
                            /\ dead_letter_messages[id].original_queue_name = lastOp'.q}
             limit == IF lastOp'.max = None THEN DefaultRedriveLimit
                      ELSE Unwrap(lastOp'.max)
             inserted == DOMAIN messages' \ DOMAIN messages
             removed == DOMAIN dead_letter_messages \ DOMAIN dead_letter_messages'
         IN /\ lastOp'.n = Min(limit, Cardinality(matching))
            /\ Cardinality(inserted) = lastOp'.n
            /\ \A id \in inserted : messages'[id].queue_name = lastOp'.q
            /\ \A id \in DOMAIN messages :
                  id \in DOMAIN messages' /\ messages'[id] = messages[id]
            /\ Cardinality(removed) = lastOp'.n
            /\ removed \subseteq matching
            /\ \A id \in DOMAIN dead_letter_messages' :
                  /\ id \in DOMAIN dead_letter_messages
                  /\ dead_letter_messages'[id] = dead_letter_messages[id]
            /\ Cardinality(DOMAIN messages') + Cardinality(DOMAIN dead_letter_messages')
                  = Cardinality(DOMAIN messages) + Cardinality(DOMAIN dead_letter_messages)]_vars

(* A redrive limited to one message has just moved one of two matching      *)
(* records back to the source queue.                                        *)
RedriveConservationWitness ==
    /\ lastOp.op = "RedriveDlqMessages"
    /\ lastOp.max = Some(1)
    /\ lastOp.n = 1
    /\ Cardinality(DOMAIN dead_letter_messages) = 1
    /\ lastOp.ids[1] \in DOMAIN messages
    /\ messages[lastOp.ids[1]].status = "active"

(* C11: immediately after a cleanup tick of the retention scheduler, in     *)
(* either retention mode, no message is processing with a visibility       *)
(* deadline at or before now.                                               *)
SweepLeavesNoExpiredLease ==
    lastOp.op \in CleanupOps =>
        \A id \in DOMAIN messages :
            ~ /\ messages[id].status = "processing"
              /\ IsSome(messages[id].visibility_timeout)
              /\ Unwrap(messages[id].visibility_timeout) <= now

(* C12: no operation decreases the receive_count of a message, and a receive *)
(* that delivers a message increases its receive_count by exactly 1.        *)
MonotoneReceiveCount ==
    [][\A id \in DOMAIN messages \cap DOMAIN messages' :
          /\ messages'[id].receive_count >= messages[id].receive_count
          /\ id \in DeliveredNow =>
                messages'[id].receive_count = messages[id].receive_count + 1]_vars

(* A message that was delivered and then given to RestoreMessage has just   *)
(* been delivered again, with receive_count 2.                              *)
MonotoneReceiveCountWitness ==
    /\ lastOp.op \in ReceiveOps
    /\ \E id \in Range(lastOp.ids) :
          /\ id \in DOMAIN messages
          /\ messages[id].receive_count = MaxReceives
          /\ id \notin hist.awaiting

(* C13: every send to a FIFO queue is assigned a sequence_number strictly   *)
(* greater than every sequence_number assigned in that queue before, also   *)
(* after rows were removed by a Delete-mode cleanup.                        *)
SequenceStrictlyIncreasing ==
    [][\A a \in AssignedNow : \A b \in hist.assigned :
          a[1] = b[1] => a[2] > b[2]]_vars

(* C14: whatever the interleaving of concurrent sends to a FIFO queue, the  *)
(* rows they insert carry pairwise distinct sequence numbers.               *)
NoDuplicateSequenceNumber ==
    \A a, b \in DOMAIN messages :
        /\ a # b
        /\ messages[a].queue_name = messages[b].queue_name
        /\ IsSome(messages[a].sequence_number)
        /\ IsSome(messages[b].sequence_number)
        => messages[a].sequence_number # messages[b].sequence_number

(* Two sends to the FIFO queue that were in progress at the same time have  *)
(* both inserted their row and neither has returned.                        *)
NoDuplicateSequenceNumberWitness ==
    /\ \A s \in Senders :
          /\ senders[s].pc = "notify"
          /\ senders[s].is_fifo
          /\ senders[s].id \in DOMAIN messages
          /\ IsSome(messages[senders[s].id].sequence_number)
    /\ \E s, t \in Senders : senders[s].id # senders[t].id

(* C15: of two concurrent sends with the same queue and deduplication id at *)
(* most one inserts a row: no two rows of a queue carry the same            *)
(* deduplication id with created_at less than five minutes apart.           *)
ConcurrentDedup ==
    \A a, b \in DOMAIN messages :
        /\ a # b
        /\ messages[a].queue_name = messages[b].queue_name
        /\ IsSome(messages[a].deduplication_id)
        /\ messages[a].deduplication_id = messages[b].deduplication_id
        /\ messages[a].created_at <= messages[b].created_at
        => messages[b].created_at - messages[a].created_at >= DedupWindowSeconds

(* C16: whatever the interleaving of concurrent receives, single, batch or *)
(* long-polling, a receive hands out only rows that were visible, each once, *)
(* marks them processing in the same step so that no other receive selects  *)
(* them, and hands out no message that the long-polling receive in progress *)
(* holds under its lease.                                                   *)
ConcurrentReceivesDisjoint ==
    [][/\ \A id \in DeliveredNow :
             /\ id \in Eligible(lastOp'.q)
             /\ messages'[id].status = "processing"
             /\ messages'[id].visibility_timeout = Some(now + LeaseSeconds)
             /\ id \notin Eligible(lastOp.q)'
       /\ \A i, j \in 1..Len(lastOp'.ids) :
             lastOp'.op \in ReceiveOps /\ i # j => lastOp'.ids[i] # lastOp'.ids[j]
       /\ DeliveredNow \cap (Range(poll.got) \cap hist.leased) = {}]_vars

(* While the long-polling receive is between two of its receive calls and  *)
(* holds one message, a receive of another caller has just been handed the  *)
(* other message of the queue.                                              *)
ConcurrentReceivesDisjointWitness ==
    /\ lastOp.op \in {"ReceiveMessage", "ReceiveMessagesBatch"}
    /\ lastOp.ids # <<>>
    /\ poll.pc \in {"first", "woken"}
    /\ poll.i > 0
    /\ poll.got # <<>>
    /\ Range(poll.got) \subseteq hist.leased
    /\ Range(lastOp.ids) \cap Range(poll.got) = {}

(* C17: when the timeout of a long-polling receive fires while a message of *)
(* its queue is receivable, the receive returns a message, not an empty     *)
(* result.                                                                  *)
FinalCheckOnTimeout ==
    [][/\ poll.pc = "waiting"
       /\ poll'.pc = "return"
       /\ Eligible(poll.q) # {}
       => poll'.got # <<>>]_vars

(* The long-polling receive is subscribed: it sleeps or handles a wakeup. *)
PollWaiting == poll.pc \in {"waiting", "woken"}

NotifiedWhileWaiting ==
    /\ poll.pc = "waiting"
    /\ poll.pending > 0
    /\ now < poll.deadline
    /\ Eligible(poll.q) # {}

DeleteMessageResult ==
    [][lastOp'.op = "DeleteMessage" =>
         LET id == lastOp'.ids[1]
             live == id \in DOMAIN messages /\ messages[id].status # "deleted"
         IN /\ lastOp'.ok <=> live
            /\ live => messages'[id].status = "deleted"
            /\ ~live => messages' = messages]_vars

(* C21: RestoreMessage sets the status of the message to active, clears its *)
(* deadline and deleted_at, leaves body, attributes and receive_count, and  *)
(* returns true exactly when it changed the message: false for an id that   *)
(* matches no message and for a message that is already active with no      *)
(* deadline.                                                                *)
RestoreMessageResult ==
    [][lastOp'.op = "RestoreMessage" =>
         LET id == lastOp'.ids[1]
         IN IF id \in DOMAIN messages
            THEN /\ messages'[id].status = "active"
                 /\ messages'[id].visibility_timeout = None
                 /\ messages'[id].deleted_at = None
                 /\ messages'[id].body = messages[id].body
                 /\ messages'[id].attributes = messages[id].attributes
                 /\ messages'[id].receive_count = messages[id].receive_count
                 /\ lastOp'.ok <=> messages'[id] # messages[id]
            ELSE /\ messages' = messages
                 /\ ~lastOp'.ok]_vars

(* C22: CreateQueue on a name that already exists changes nothing: not the *)
(* queue's created_at, not its messages, not its stored configuration.      *)
CreateQueueIdempotent ==
    [][lastOp'.op = "CreateQueue" /\ lastOp'.q \in DOMAIN queues
          => /\ queues' = queues
             /\ messages' = messages
             /\ queue_config' = queue_config]_vars

FifoFlagImmutable ==
    [][\A name \in DOMAIN queues \cap DOMAIN queues' :
          IsFifo(name)' = IsFifo(name)]_vars

(* C25: DeleteQueue returns true exactly when the queue existed; after it   *)
(* the queue is not listed, has no message and a receive on it finds        *)
(* nothing; other queues and their messages are unchanged; on a name that   *)
(* does not exist it changes nothing.                                       *)
DeleteQueueFrame ==
    [][lastOp'.op = "DeleteQueue" =>
         LET name == lastOp'.q
         IN /\ lastOp'.ok <=> name \in DOMAIN queues
            /\ name \notin ListQueues'
            /\ \A id \in DOMAIN messages' : messages'[id].queue_name # name
            /\ Eligible(lastOp.q)' = {}
            /\ \A other \in DOMAIN queues \ {name} :
                  other \in DOMAIN queues' /\ queues'[other] = queues[other]
            /\ \A id \in DOMAIN messages :
                  messages[id].queue_name # name =>
                     id \in DOMAIN messages' /\ messages'[id] = messages[id]
            /\ name \notin DOMAIN queues => messages' = messages]_vars

(* The visibility timeout the configuration of a queue holds, the default  *)
(* for a queue without a configuration.                                     *)
ConfiguredVisibilityTimeout(q) ==
    IF q \in DOMAIN queue_config THEN queue_config[q].visibility_timeout_seconds
    ELSE DefaultVisibilityTimeout

(* C26: a receive sets the visibility deadline of every message it delivers *)
(* to now plus the visibility timeout configured for the queue (30 s by     *)
(* default).                                                                *)
LeaseIsConfiguredTimeout ==
    [][\A id \in DeliveredNow :
          messages'[id].visibility_timeout =
             Some(now + ConfiguredVisibilityTimeout(messages[id].queue_name))]_vars

(* The delay of a message has elapsed. *)
DelayElapsed(row) ==
    ~IsSome(row.delay_until) \/ Unwrap(row.delay_until) < now

(* C27: every message a receive on a queue returns belonged to that queue   *)
(* and was active with its delay elapsed when it was selected; a receive on *)
(* a queue without an eligible message, a queue that does not exist         *)
(* included, returns an empty result without error and changes nothing.     *)
SelectionPredicate ==
    [][lastOp'.op \in ReceiveOps =>
          /\ \A id \in DeliveredNow :
                /\ id \in DOMAIN messages
                /\ messages[id].queue_name = lastOp'.q
                /\ messages[id].status = "active"
                /\ DelayElapsed(messages[id])
          /\ Eligible(lastOp'.q) = {} =>
                /\ lastOp'.ids = <<>>
                /\ lastOp'.ok
                /\ messages' = messages]_vars

(* A receive on the first queue has just returned nothing: its only message *)
(* is deleted, processing, set aside or still delayed, and the other queue  *)
(* holds a message that is eligible.                                        *)
SelectionPredicateWitness ==
    /\ lastOp.op \in ReceiveOps
    /\ lastOp.q = QStd
    /\ lastOp.ids = <<>>
    /\ Eligible(QOther) # {}
    /\ \E id \in DOMAIN messages : messages[id].queue_name = QStd

(* C28: a message sent with a delay gets delay_until = now + delay and one  *)
(* sent without gets none; no receive returns a message before its         *)
(* delay_until; an active message without a deadline is receivable as soon  *)
(* as the time has passed its delay_until, and at once when it has none.    *)
DelayedDelivery ==
    /\ [][lastOp'.op = "SendMessageEnhanced" =>
            \A id \in DOMAIN messages' \ DOMAIN messages :
               \/ messages'[id].delay_until = None
               \/ \E d \in DelaySeconds \ {0} :
                     messages'[id].delay_until = Some(now + d)]_vars
    /\ [][\A id \in DeliveredNow : DelayElapsed(messages[id])]_vars
    /\ [](\A id \in DOMAIN messages :
             /\ messages[id].status = "active"
             /\ ~IsSome(messages[id].visibility_timeout)
             /\ DelayElapsed(messages[id])
             => id \in Eligible(messages[id].queue_name))

(* The queue has a configuration with is_fifo and content-based            *)
(* deduplication set.                                                       *)
ContentBasedFifo(q) ==
    /\ q \in DOMAIN queue_config
    /\ queue_config[q].is_fifo
    /\ queue_config[q].content_based_deduplication

(* The rows of a queue created within the deduplication window. *)
InWindow(msgs, q) ==
    {id \in DOMAIN msgs :
        /\ msgs[id].queue_name = q
        /\ msgs[id].created_at > now - DedupWindowSeconds}

FifoFieldsAssigned ==
    [][\A id \in DOMAIN messages' \ DOMAIN messages :
          IF IsFifo(messages'[id].queue_name)
          THEN /\ IsSome(messages'[id].sequence_number)
               /\ IsSome(messages'[id].message_group_id)
          ELSE ~IsSome(messages'[id].sequence_number)]_vars

(* C31: a batch receive asked for max messages returns at most             *)
(* min(max, 10) of them, and the long-polling receive asked for max         *)
(* messages never collects more than min(max, 10), before or after a        *)
(* wakeup, and returns what it has collected.                               *)
ReceiveSizeBound ==
    /\ [][\A max \in ReceiveMaxima :
             /\ lastOp'.op = "ReceiveMessagesBatch"
             /\ ReceiveMessagesBatch(QFifo, max)
             => Len(lastOp'.ids) <= Min(max, BatchReceiveLimit)]_vars
    /\ [][poll.pc \in {"first", "woken"}
             => Len(poll'.got) <= Min(poll.max, BatchReceiveLimit)]_vars
    /\ [][poll.pc = "return" /\ poll'.pc = "idle"
             => lastOp'.ids = poll.got]_vars

(* C32: a batch send and a batch delete give one result per entry, in the  *)
(* order of the entries.  An entry of a batch send fails exactly when its   *)
(* id is already stored or used by an earlier entry, and every other entry  *)
(* is stored with its body, whatever fails before or after it; a handle of  *)
(* a batch delete fails exactly when it matches no row, and every row a     *)
(* handle matches is deleted.  Rows that no entry names are unchanged.      *)
BatchResultsPerEntry ==
    /\ [][lastOp'.op = "QueueServiceSendMessagesBatch" =>
            LET entries == lastOp'.entries
                results == lastOp'.results
                fresh(i) ==
                    /\ entries[i].message_id \notin DOMAIN messages
                    /\ \A j \in 1..(i - 1) :
                          entries[j].message_id # entries[i].message_id
            IN /\ Len(results) = Len(entries)
               /\ \A i \in 1..Len(entries) :
                     /\ results[i] = IF fresh(i) THEN "Ok" ELSE "Err"
                     /\ fresh(i) =>
                           /\ entries[i].message_id \in DOMAIN messages'
                           /\ messages'[entries[i].message_id].body = entries[i].body
                           /\ messages'[entries[i].message_id].queue_name =
                                 entries[i].queue_name
               /\ \A id \in DOMAIN messages :
                     id \in DOMAIN messages' /\ messages'[id] = messages[id]]_vars
    /\ [][lastOp'.op = "DeleteMessagesBatch" =>
            LET message_ids == lastOp'.ids
                results == lastOp'.results
            IN /\ Len(results) = Len(message_ids)
               /\ \A i \in 1..Len(message_ids) :
                     /\ results[i] =
                           IF message_ids[i] \in DOMAIN messages THEN "Ok" ELSE "Err"
                     /\ message_ids[i] \in DOMAIN messages =>
                           messages'[message_ids[i]].status = "deleted"
               /\ DOMAIN messages' = DOMAIN messages
               /\ \A id \in DOMAIN messages \ Range(message_ids) :
                     messages'[id] = messages[id]]_vars

(* A batch send of two entries has just returned: the first failed on an id *)
(* that was stored before, the second was stored.                           *)
BatchResultsPerEntryWitness ==
    /\ lastOp.op = "QueueServiceSendMessagesBatch"
    /\ lastOp.results = <<"Err", "Ok">>
    /\ lastOp.ids[2] \in DOMAIN messages
    /\ messages[lastOp.ids[2]].body = lastOp.entries[2].body
    /\ messages[lastOp.ids[2]].created_at = now
    /\ messages[lastOp.ids[1]].created_at < now

(* C33: a sweep in Delete mode removes exactly the rows created more than  *)
(* delete_after_days days ago, 14 when none is configured, whatever their   *)
(* status, reports their number, and leaves the younger rows and the        *)
(* dead-letter records as they were.                                        *)
DeleteModeCleanup ==
    [][\A days \in RetentionDays :
          /\ lastOp'.op = "CleanupDelete"
          /\ CleanupExpiredMessages("Delete", days)
          => LET period == IF IsSome(days) THEN Unwrap(days) ELSE 14
                 old == {id \in DOMAIN messages :
                            now - messages[id].created_at > period * SecondsPerDay}
             IN /\ DOMAIN messages' = DOMAIN messages \ old
                /\ \A id \in DOMAIN messages' : messages'[id] = messages[id]
                /\ lastOp'.n = Cardinality(old)
                /\ dead_letter_messages' = dead_letter_messages]_vars

(* A sweep in Delete mode has just removed one row and kept a younger one   *)
(* that is not active.                                                      *)
DeleteModeCleanupWitness ==
    /\ lastOp.op = "CleanupDelete"
    /\ lastOp.n = 1
    /\ \E id \in DOMAIN messages :
          /\ messages[id].status # "active"
          /\ messages[id].created_at < now

(* C34: GetQueueAttributes on a queue that exists reports as visible the   *)
(* number of the queue's messages a receive could select now, and on a      *)
(* queue that does not exist it returns nothing, without error.             *)
VisibleCount ==
    [][lastOp'.op = "GetQueueAttributes" =>
          IF lastOp'.q \in DOMAIN queues
          THEN /\ IsSome(lastOp'.attrs)
               /\ Unwrap(lastOp'.attrs).approximate_number_of_messages =
                     Cardinality(Eligible(lastOp'.q))
          ELSE lastOp'.attrs = None /\ lastOp'.ok]_vars

(* C40: GetQueueAttributes on a queue that exists reports as in flight the *)
(* number of the queue's messages that are leased, received and neither     *)
(* deleted nor reclaimed, and the visible and the in-flight messages        *)
(* together are the undeleted messages of the queue.                        *)
InFlightCount ==
    [][lastOp'.op = "GetQueueAttributes" /\ lastOp'.q \in DOMAIN queues =>
          LET attrs == Unwrap(lastOp'.attrs)
              leased == {id \in DOMAIN messages :
                            /\ messages[id].queue_name = lastOp'.q
                            /\ messages[id].status = "processing"}
              undeleted == {id \in DOMAIN messages :
                               /\ messages[id].queue_name = lastOp'.q
                               /\ messages[id].status # "deleted"}
          IN /\ attrs.approximate_number_of_messages_not_visible = Cardinality(leased)
             /\ attrs.approximate_number_of_messages
                   + attrs.approximate_number_of_messages_not_visible
                = Cardinality(undeleted)]_vars

(* serde_json::from_str(&json).ok() on the attributes column: no column    *)
(* value and the empty string both give no attributes.                      *)
ParsedAttributes(attributes) ==
    IF attributes = Some("") THEN None ELSE attributes

(* C35: every message a redrive inserts has an id that was neither a        *)
(* message id nor the id of a dead-letter record, the body and the          *)
(* attributes of one of the records the redrive removed, status active, no  *)
(* deadline and receive_count 0; and the first receive that selects a       *)
(* redriven message delivers it and does not set it aside again.           *)
RedrivenFresh ==
    /\ [][lastOp'.op = "RedriveDlqMessages" =>
            LET removed == DOMAIN dead_letter_messages \ DOMAIN dead_letter_messages'
                new == Range(lastOp'.ids)
            IN /\ Cardinality(new) = Cardinality(removed)
               /\ new \cap (DOMAIN messages \cup DOMAIN dead_letter_messages) = {}
               /\ \E f \in [new -> removed] :
                     /\ \A a, b \in new : a # b => f[a] # f[b]
                     /\ \A id \in new :
                           /\ id \in DOMAIN messages'
                           /\ messages'[id].queue_name = lastOp'.q
                           /\ messages'[id].body =
                                 dead_letter_messages[f[id]].original_body
                           /\ ParsedAttributes(messages'[id].attributes) =
                                 ParsedAttributes(
                                    Some(dead_letter_messages[f[id]].original_attributes))
                           /\ messages'[id].status = "active"
                           /\ messages'[id].visibility_timeout = None
                           /\ messages'[id].receive_count = 0]_vars
    /\ [][lastOp'.op \in ReceiveOps =>
            \A id \in hist.redriven \cap DOMAIN messages :
               /\ messages[id].receive_count = 0
               /\ messages'[id] # messages[id]
               => /\ id \in DeliveredNow
                  /\ messages'[id].status = "processing"
                  /\ messages'[id].receive_count = 1]_vars

(* A receive has just delivered a redriven message whose queue has a        *)
(* dead-letter policy.                                                      *)
RedrivenFreshWitness ==
    /\ lastOp.op = "ReceiveMessage"
    /\ lastOp.ids # <<>>
    /\ lastOp.ids[1] \in hist.redriven
    /\ ExceedsMaxReceiveCount(QStd, 2)
    /\ messages[lastOp.ids[1]].attributes = Some("x")

(* C36: a receive that sets its head aside as dlq_pending goes on to the    *)
(* next message: when a message of the queue is left that is active, has no *)
(* deadline and no delay and would not cross max_receive_count, the call    *)
(* delivers a message.                                                      *)
ReceivePastPromotedHead ==
    [][/\ lastOp'.op = "ReceiveMessage"
       /\ \E id \in DOMAIN messages :
             /\ messages[id].status # "dlq_pending"
             /\ messages'[id].status = "dlq_pending"
       /\ \E id \in DOMAIN messages' :
             /\ messages'[id].queue_name = lastOp'.q
             /\ messages'[id].status = "active"
             /\ messages'[id].visibility_timeout = None
             /\ messages'[id].delay_until = None
             /\ ~ExceedsMaxReceiveCount(lastOp'.q, messages'[id].receive_count + 1)
       => lastOp'.ids # <<>>]_vars

(* C37: the receipt handle of a delivered message is its id, and a delete   *)
(* with the handle of a message that was delivered before succeeds and      *)
(* marks the message deleted in whatever state the message is now: under    *)
(* the same lease, after the lease was reclaimed, or delivered again.       *)
HandleNotBoundToLease ==
    /\ [][\A id \in DeliveredNow : ReceivedMessage(id).receipt_handle = id]_vars
    /\ [][lastOp'.op = "DeleteMessage" =>
            \A id \in DOMAIN messages :
               /\ ReceivedMessage(id).receipt_handle = lastOp'.ids[1]
               /\ messages[id].receive_count >= 1
               => /\ lastOp'.ok
                  /\ messages'[id].status = "deleted"
                  /\ messages'[id].deleted_at = Some(now)]_vars

(* A delete has just succeeded on a message that had been delivered twice   *)
(* and was held under its second lease.                                     *)
HandleNotBoundToLeaseWitness ==
    /\ lastOp.op = "DeleteMessage"
    /\ lastOp.ok
    /\ \E id \in DOMAIN messages :
          /\ lastOp.ids = <<id>>
          /\ messages[id].receive_count = 2
          /\ messages[id].status = "deleted"
          /\ messages[id].deleted_at = Some(now)
          /\ IsSome(messages[id].visibility_timeout)
          /\ Unwrap(messages[id].visibility_timeout) > now

(* C38: every row of the messages table names a queue that has a row in    *)
(* the queues table, so that a send to a queue that was never created or    *)
(* has been deleted leaves no row.                                          *)
ReferentialIntegrity ==
    \A id \in DOMAIN messages : messages[id].queue_name \in DOMAIN queues

(* The configuration fields an attribute of SetQueueAttributes names. *)
FieldsNamed(attributes) ==
    (IF IsSome(attributes.VisibilityTimeout)
     THEN {"visibility_timeout_seconds"} ELSE {})
    \cup (IF IsSome(attributes.MessageRetentionPeriod)
          THEN {"message_retention_period_seconds"} ELSE {})
    \cup (IF IsSome(attributes.DelaySeconds) THEN {"delay_seconds"} ELSE {})
    \cup (IF IsSome(attributes.ReceiveMessageWaitTimeSeconds)
          THEN {"receive_message_wait_time_seconds"} ELSE {})
    \cup (IF IsSome(attributes.RedrivePolicy)
          THEN {"max_receive_count", "dead_letter_target_arn"} ELSE {})

(* C39: SetQueueAttributes on a queue that has a configuration leaves every *)
(* field of it that the attributes do not name as it was.                   *)
SetQueueAttributesFrame ==
    [][\A name \in QueueNames : \A attributes \in {VisibilityAttribute} :
          /\ lastOp'.op = "SetQueueAttributes"
          /\ name \in DOMAIN queue_config
          /\ SetQueueAttributes(name, attributes)
          => \A field \in DOMAIN queue_config[name] \ FieldsNamed(attributes) :
                queue_config'[name][field] = queue_config[name][field]]_vars

====
